---- MODULE Spec2Model ----
(***************************************************************************)
(* A model of the Docker cluster manager of dcos-e2e                       *)
(* (src/src/dcos_e2e/backends/_docker/__init__.py): the constructor of the *)
(* Docker backend configuration, and DockerCluster's constructor,          *)
(* install_dcos_from_path, install_dcos_from_url, destroy and node         *)
(* accessors, run against a model of the Docker daemon.                    *)
(*                                                                         *)
(* Each method is cut into steps at its calls to the daemon, to the        *)
(* installer subprocess and to the nodes, so that other actors can         *)
(* interleave with it.  These specifications are given:                    *)
(*   Spec         one cluster of a default backend; the daemon does what   *)
(*                it is asked;                                             *)
(*   SpecEnv      the same with an external actor that stops or removes    *)
(*                containers, and a daemon that may refuse a stop or a     *)
(*                remove;                                                  *)
(*   SpecBackend  the construction of a backend configuration from the     *)
(*                caller's arguments, and of a cluster from it;            *)
(*   SpecTwo      two clusters constructed, used and destroyed side by     *)
(*                side;                                                    *)
(*   SpecTwoInstall  two clusters constructed and installed from a path    *)
(*                side by side;                                            *)
(*   SpecTwoBackends  two clusters constructed side by side from backend   *)
(*                configurations that differ;                              *)
(*   SpecUpgrade  one cluster constructed, installed, waited for and       *)
(*                upgraded node by node, as the upgrade test does.         *)
(* Two commands of the CLI are modelled beside it, each with a             *)
(* specification of its own:                                               *)
(*   SpecAws      the destroy-list command of the AWS CLI                  *)
(*                (src/src/dcos_e2e_cli/dcos_aws/commands/destroy.py);     *)
(*   SpecHalo     the Halo spinner, its caller and its render threads      *)
(*                (src/src/dcos_e2e_cli/_vendor/halo/halo.py).             *)
(***************************************************************************)
EXTENDS Integers, Sequences, FiniteSets, TLC

\* ------------------------------------------------------------------ bounds

MaxMasters == 2
MaxAgents == 1
MaxPublicAgents == 1
\* How many times the external actor and the failing daemon may act (SpecEnv).
MaxEnvEvents == 2
\* The nodes that two clusters created side by side have between them
\* (SpecTwo).
MaxPairNodes == 2
\* The nodes of a cluster whose environment acts (SpecEnv).
MaxEnvNodes == 2
\* The ports of the host that the operating system hands out.
MaxPorts == 2

\* How many cluster ids the destroy-list command is given.
MaxClusterIds == 3

\* How many render threads a spinner makes in its life.
MaxThreads == 2

\* The addresses of the bridge network: one more than the model ever needs.
NumIPs == MaxMasters + MaxAgents + MaxPublicAgents + 1
IPs == 1..NumIPs
NoIP == 0
\* The loopback address 127.0.0.1, which is no address of the bridge.
Loopback == NumIPs + 1

Clusters == {1, 2}

\* ------------------------------------------------------------- name tokens

\* uuid.uuid4() values, as tokens; str(container_number), as tokens.
UuidTok ==
    <<"u1", "u2", "u3", "u4", "u5", "u6", "u7", "u8", "u9", "u10", "u11",
      "u12", "u13", "u14", "u15", "u16", "u17", "u18", "u19", "u20", "u21",
      "u22", "u23", "u24", "u25", "u26", "u27", "u28", "u29", "u30", "u31",
      "u32">>
NumTok == <<"1", "2", "3", "4", "5", "6", "7", "8", "9">>

\* A generator that returns the same value every time.
Uuid4Repeats(n) == UuidTok[1]

\* The n-th value uuid.uuid4() returns: no two calls return the same value.
Uuid4(n) == UuidTok[n]

Roles == <<"master", "agent", "public_agent">>

\* The text a role contributes to a container name, between the cluster id
\* and the number: '-master-', '-agent-', '-public_agent-'.  The public agent's
\* text is cut in two so that '-agent-' is visibly a substring of it.
RoleTok(role) ==
    CASE role = "master" -> <<"-", "master-">>
      [] role = "agent" -> <<"-", "agent-">>
      [] role = "public_agent" -> <<"-", "public_", "agent-">>

\* self._master_prefix, self._agent_prefix, self._public_agent_prefix
Prefix(id, role) == <<"dcos-e2e-", id>> \o RoleTok(role)

\* hostname = container_base_name + str(container_number)
Hostname(base, number) == base \o <<NumTok[number]>>

\* Docker's name filter matches a container whose name contains the text.
Contains(name, text) ==
    \E i \in 0..(Len(name) - Len(text)) :
        \A j \in 1..Len(text) : name[i + j] = text[j]

\* ------------------------------------------------------------------ state

VARIABLES
    backend,     \* the Docker backend configuration the clusters are built from
    active,      \* the cluster objects the callers construct
    cluster,     \* cluster object -> its fields, its call in progress, its history
    images,      \* the daemon: image tag -> the image the tag refers to
    namedVolumes, \* the daemon: the names of the volumes it keeps
    containers,  \* the daemon: container name -> [status, ip]
    ipHigh,      \* the daemon: how many addresses it has handed out so far
    nextUuid,    \* how many uuid4() values have been drawn
    envBudget,   \* how many more times the environment may act
    aws,         \* the destroy-list command of the AWS CLI and its region
    halo         \* the Halo spinner, its caller and its render threads

vars ==
    <<backend, active, images, namedVolumes, cluster, containers, ipHigh, nextUuid, envBudget,
      aws, halo>>

NoName == <<>>
NoResult == [op |-> "none", status |-> "none", error |-> "none", node |-> NoIP]
NoConfig ==
    [written |-> FALSE, cluster_name |-> "", master_list |-> {},
     agent_list |-> {}, public_agent_list |-> {}]
NoSnap == [r \in {"master", "agent", "public_agent"} |-> {}]

Blank ==
    [op |-> "none",            \* the method running: none, create, install, destroy
     pc |-> "new",             \* its position
     handle |-> FALSE,         \* the constructor returned: the caller holds the object
     id |-> "",                \* self._cluster_id (its random part)
     path |-> "",              \* self._path (its random part)
     req |-> [master |-> 0, agent |-> 0, public_agent |-> 0],
     plan |-> <<>>,            \* the containers the constructor starts, in order
     idx |-> 0,                \* the one it is at
     cmd |-> 0,                \* the bootstrap command it is at
     pass |-> 0,               \* 1: the unchecked exec_run, 2: the checked one
     staging |-> FALSE,        \* the directory self._path exists
     config |-> NoConfig,      \* genconf/config.yaml
     extra |-> "",             \* extra_config's cluster_name ("" when not given)
     snap |-> NoSnap,          \* the node sets a method took from the accessors
     role |-> 0,               \* the role whose nodes or prefix a loop is at
     pending |-> {},           \* what the loop has still to visit
     curr |-> NoName,          \* destroy: the container stopped and not yet removed
     result |-> NoResult,      \* how the last finished call ended
     log |-> <<>>,             \* the install scripts run by the last install call
     genconfRuns |-> 0,        \* the generate-config runs of the last install call
     genconfFailed |-> FALSE,  \* one of them ended with a non-zero exit code
     failedNodes |-> {},       \* the nodes whose install script failed in that call
     bootNonZero |-> FALSE,    \* create: an exec_run on the node at hand ended non-zero
     execRuns |-> 0,           \* create: the exec_run calls made on the last node started
     ran |-> <<>>,             \* create: the commands run on it, in the order of their first run
     bootDone |-> {},          \* create: the commands a run of which ended with exit code 0
     cleared |-> {},           \* create: the nodes the nologin loop has visited
     nologinFailed |-> FALSE,  \* create: on one of them rm could not remove the file
     sawMaster |-> FALSE,      \* create: `if self.masters` held for the node at hand
     registry |-> NoIP,        \* create: its extra_hosts address for registry.local
     port |-> 0,               \* install: installer_port, until the genconf step ends
     waited |-> FALSE,         \* wait_for_dcos_oss returned since the last install
     listed |-> {},            \* destroy: every container the call listed
     attempted |-> {},         \* destroy: every container the call tried to stop
     prefixes |-> 0,           \* destroy: how many prefixes the call listed
     rmtree |-> FALSE,         \* destroy: the call reached rmtree
     destroyStarted |-> FALSE, \* some destroy call has begun
     destroysOk |-> 0,         \* the destroy calls that returned normally (2: two or more)
     raisedAfter |-> FALSE]    \* a destroy call raised after one returned normally

\* ------------------------------------------------------------ the daemon

\* docker_image_tag = 'mesosphere/dcos-docker' and base_tag, the same for
\* every cluster.
Tags == {"mesosphere/dcos-docker:base", "mesosphere/dcos-docker"}
BaseTag == "mesosphere/dcos-docker:base"
DockerImageTag == "mesosphere/dcos-docker"

\* An image: the distribution of its operating-system layer, whether the layer
\* that installs Docker is on top of it and of which Docker version, and
\* whether every layer of the build that made it is there.
NoImage ==
    [distribution |-> "", docker |-> FALSE, version |-> "", complete |-> FALSE]

\* A daemon that puts the tag on the image while the build is still adding
\* layers to what the tag held.
TaggedWhileBuilding(tag, image) ==
    [images EXCEPT ![tag] =
        IF @ = NoImage THEN image ELSE [image EXCEPT !.complete = FALSE]]

\* client.images.build(tag=...): the daemon builds the image aside and, when
\* the build has succeeded, makes the tag refer to it in one step.
Tagged(tag, image) == [images EXCEPT ![tag] = image]

Names == DOMAIN containers
Running == {n \in Names : containers[n].status = "running"}

\* client.containers.list(filters={'name': text}): the running containers
\* whose name contains the text (stopped ones are listed only with all=True).
ListContainers(text) == {n \in Running : Contains(n, text)}

\* The bridge gives a starting container an address no running container has:
\* one that a container gave back, or a fresh one.  The addresses never handed
\* out are interchangeable, so the lowest of them stands for all.
FreeIPs ==
    {ip \in IPs : ip <= ipHigh + 1} \ {containers[n].ip : n \in Running}

\* client.containers.run(image=docker_image, ...): the daemon resolves the
\* tag when it creates the container, which keeps that image from then on.
Started(name, ip, labels, volumes) ==
    [n \in Names \cup {name} |->
        IF n = name
        THEN [status |-> "running", ip |-> ip, labels |-> labels,
              volumes |-> volumes, image |-> images[DockerImageTag]]
        ELSE containers[n]]

\* A container the daemon created and could not start.
Created(name, labels, volumes) ==
    [n \in Names \cup {name} |->
        IF n = name
        THEN [status |-> "created", ip |-> NoIP, labels |-> labels,
              volumes |-> volumes, image |-> images[DockerImageTag]]
        ELSE containers[n]]

\* The volumes the daemon makes for a container: an entry of the volumes
\* dictionary whose key is no path of the host names a volume, which the
\* daemon creates under that name if it has none; the keys that are no paths
\* are the generated ones.
VolumeNames(mounts) ==
    {m.host : m \in {v \in mounts :
        Len(v.host) = 1 /\ \E i \in 1..Len(UuidTok) : v.host[1] = UuidTok[i]}}

\* The volumes container.remove(v=True) removes with the container: its
\* anonymous volumes, those mounted without a name.  A volume that was given
\* a name when the container was made is kept, and every volume of these
\* containers was given one, the key of its entry.
RemovedWith(name) ==
    {v \in VolumeNames(containers[name].volumes) : v = <<>>}

Stopped(name) ==
    [containers EXCEPT ![name].status = "exited", ![name].ip = NoIP]

Removed(name) == [n \in Names \ {name} |-> containers[n]]

\* ----------------------------------------------------------- the accessors

\* DockerCluster._nodes: one Node per address among the listed containers
\* (Node values are equal when their addresses are, and the result is a set).
Nodes(text) == {containers[n].ip : n \in ListContainers(text)}

Masters(c) == Nodes(Prefix(cluster[c].id, "master"))
Agents(c) == Nodes(Prefix(cluster[c].id, "agent"))
PublicAgents(c) == Nodes(Prefix(cluster[c].id, "public_agent"))

Accessor(c, role) ==
    CASE role = "master" -> Masters(c)
      [] role = "agent" -> Agents(c)
      [] role = "public_agent" -> PublicAgents(c)

\* The container a command sent to an address reaches, if any.
At(ip) == {n \in Running : containers[n].ip = ip}

\* ------------------------------------------------------ the backend config

\* The members of Distribution a caller passes as linux_distribution.
Distributions == {"CENTOS_7", "COREOS", "UBUNTU_16_04"}

\* A backend that supports every distribution.
AllDistributionsSupported == Distributions

\* supported_distributions = {Distribution.CENTOS_7, Distribution.COREOS}
SupportedDistributions == {"CENTOS_7", "COREOS"}

\* docker_versions: the directory names of the Docker versions.
DockerVersions == {"1.13.1", "1.11.2"}

\* A dictionary without keys.
EmptyDict == [k \in {} |-> ""]

\* The values a caller gives for docker_container_labels.
LabelChoices ==
    {EmptyDict, [owner |-> "me"], [node_type |-> "mine"],
     [node_type |-> "mine", owner |-> "me"]}

\* A volumes dictionary is the set of its entries; the key of an entry is its
\* host path (or volume name), a sequence of tokens.
Mount(host, bind, mode) == [host |-> host, bind |-> bind, mode |-> mode]

\* The values a caller gives for custom_master_mounts, custom_agent_mounts and
\* custom_public_agent_mounts: none; one mount for each role; for the agents
\* and the public agents, a mount of the host path /sys/fs/cgroup.
MountChoices ==
    {[master |-> {}, agent |-> {}, public_agent |-> {}],
     [master |-> {Mount(<<"/host/a">>, "/data", "ro")},
      agent |-> {Mount(<<"/host/b">>, "/data", "rw")},
      public_agent |-> {Mount(<<"/host/c">>, "/data", "ro")}],
     [master |-> {},
      agent |-> {Mount(<<"/sys/fs/cgroup">>, "/sys/fs/cgroup", "rw")},
      public_agent |-> {Mount(<<"/sys/fs/cgroup">>, "/sys/fs/cgroup", "rw")}]}

\* The values a caller gives for storage_driver ("" is None), and the drivers
\* the host's daemon may report.
StorageArgs == {"", "overlay"}
HostDrivers == {"overlay2", "devicemapper"}

\* storage_drivers[host_driver], and aufs on a KeyError.
FallbackDriver(host) ==
    IF host \in {"aufs", "overlay", "overlay2"} THEN host ELSE "aufs"

NoBackend ==
    [pc |-> "new",             \* new, driver, ok or raised
     distribution |-> "",      \* the linux_distribution argument
     docker_version |-> "",    \* the docker_version argument
     other |-> <<>>,           \* the same of further Docker objects, by cluster
     labels |-> EmptyDict,     \* self.docker_container_labels
     mounts |-> [master |-> {}, agent |-> {}, public_agent |-> {}],
     storage |-> "",           \* storage_driver, then self.docker_storage_driver
     providerCalls |-> 0]      \* the calls the constructor made to the daemon

\* Docker() with no argument, on a host whose daemon uses aufs.
DefaultBackend ==
    [NoBackend EXCEPT !.pc = "ok", !.distribution = "CENTOS_7",
                      !.docker_version = "1.13.1",
                      !.storage = "aufs", !.providerCalls = 1]

\* Docker.__init__ up to the check of linux_distribution: the attributes are
\* set from the arguments, and an unsupported distribution raises
\* NotImplementedError.
DockerInit ==
    /\ backend.pc = "new"
    /\ \E dist \in Distributions, ver \in DockerVersions,
          labels \in LabelChoices, mounts \in MountChoices,
          storage \in StorageArgs :
        backend' =
            [backend EXCEPT
                !.pc = IF dist \in SupportedDistributions
                       THEN "driver" ELSE "raised",
                !.distribution = dist, !.docker_version = ver,
                !.labels = labels, !.mounts = mounts,
                !.storage = storage]
    /\ UNCHANGED <<active, images, namedVolumes, cluster, containers, ipHigh, nextUuid, envBudget, aws, halo>>

\* fallback_driver = _get_fallback_storage_driver(), which asks the daemon
\* for its driver, and self.docker_storage_driver = storage_driver or
\* fallback_driver; then the constructor returns.
DockerStorageDriver ==
    /\ backend.pc = "driver"
    /\ \E host \in HostDrivers :
        backend' =
            [backend EXCEPT
                !.pc = "ok", !.providerCalls = @ + 1,
                !.storage = IF @ # "" THEN @ ELSE FallbackDriver(host)]
    /\ UNCHANGED <<active, images, namedVolumes, cluster, containers, ipHigh, nextUuid, envBudget, aws, halo>>

\* ---------------------------------------------------------- the constructor

RECURSIVE Upto(_)
Upto(n) == IF n <= 0 THEN <<>> ELSE Append(Upto(n - 1), n)

\* range(1, count)
NodeNumbersExclusive(count) == Upto(count - 1)

\* range(1, count + 1)
NodeNumbers(count) == Upto(count)

\* One loop of the constructor: the containers of one role, in order.
RolePlan(id, role, count) ==
    [k \in 1..Len(NodeNumbers(count)) |->
        [role |-> role,
         name |-> Hostname(Prefix(id, role), NodeNumbers(count)[k])]]

\* Loops that start the agents before the masters.
PlanAgentsFirst(id, req) ==
    RolePlan(id, "agent", req.agent)
        \o RolePlan(id, "master", req.master)
        \o RolePlan(id, "public_agent", req.public_agent)

\* The three loops: masters, then agents, then public agents.
Plan(id, req) ==
    RolePlan(id, "master", req.master)
        \o RolePlan(id, "agent", req.agent)
        \o RolePlan(id, "public_agent", req.public_agent)

NumBootstrapCmds == 5

\* A bootstrap loop that appends the key before anything else.
BootstrapCmdsKeyFirst ==
    <<"echo_public_key_to_authorized_keys", "mkdir_var_lib_dcos",
      "echo_systemd_support_false_to_mesos_slave_common", "systemctl_start_sshd",
      "mkdir_root_ssh">>

\* The list `for cmd in [...]` goes through: mkdir -p /var/lib/dcos; echo
\* 'MESOS_SYSTEMD_ENABLE_SUPPORT=false' >> /var/lib/dcos/mesos-slave-common;
\* systemctl start sshd.service; mkdir --parents /root/.ssh; echo <public key>
\* >> /root/.ssh/authorized_keys.
BootstrapCmds ==
    <<"mkdir_var_lib_dcos", "echo_systemd_support_false_to_mesos_slave_common",
      "systemctl_start_sshd", "mkdir_root_ssh",
      "echo_public_key_to_authorized_keys">>

\* A method that begins by giving the cluster a new (empty) identity.
NewCallNewIdentity(c, op, pc) ==
    [cluster[c] EXCEPT
        !.op = op, !.pc = pc, !.result = NoResult, !.extra = "", !.snap = NoSnap,
        !.role = 0, !.log = <<>>, !.genconfRuns = 0, !.genconfFailed = FALSE,
        !.failedNodes = {}, !.bootNonZero = FALSE,
        !.listed = {}, !.attempted = {}, !.prefixes = 0, !.rmtree = FALSE,
        !.id = ""]

\* The history fields describe the call in progress or, when none is, the
\* last one: a new call starts from a clean history.
NewCall(c, op, pc) ==
    [cluster[c] EXCEPT
        !.op = op, !.pc = pc, !.result = NoResult, !.extra = "", !.snap = NoSnap,
        !.role = 0, !.log = <<>>, !.genconfRuns = 0, !.genconfFailed = FALSE,
        !.failedNodes = {}, !.bootNonZero = FALSE, !.port = 0,
        !.cleared = {}, !.nologinFailed = FALSE,
        !.listed = {}, !.attempted = {}, !.prefixes = 0, !.rmtree = FALSE]

\* A method returns or raises: the caller may make its next call.
Finish(c, op, status, error, node) ==
    [cluster[c] EXCEPT
        !.op = "none", !.pc = "idle", !.pending = {}, !.curr = NoName,
        !.result = [op |-> op, status |-> status, error |-> error, node |-> node]]

\* How many nodes a request asks for.
Size(req) == req.master + req.agent + req.public_agent

\* The masters, agents and public_agents arguments of the constructor of
\* cluster c; clusters made side by side, and a cluster whose environment
\* acts, are small ones.
Requests(c) ==
    {req \in [master : 0..MaxMasters, agent : 0..MaxAgents,
              public_agent : 0..MaxPublicAgents] :
        \/ active = {c} /\ (envBudget = 0 \/ Size(req) <= MaxEnvNodes)
        \/ active # {c} /\ \A d \in active \ {c} :
                Size(req) + Size(cluster[d].req) <= MaxPairNodes}

\* DockerCluster(...): the cluster id, the staging tree, the key pair, the
\* files to copy, the service file and the three prefixes.
CreateBegin(c) ==
    /\ c \in active
    /\ backend.pc = "ok"
    /\ cluster[c].pc = "new"
    /\ nextUuid + 2 <= Len(UuidTok)
    /\ \E req \in Requests(c) :
        LET id == Uuid4(nextUuid + 1)
        IN  cluster' = [cluster EXCEPT ![c] =
                [@ EXCEPT !.op = "create", !.pc = "build", !.id = id,
                          !.path = Uuid4(nextUuid + 2), !.req = req,
                          !.plan = Plan(id, req), !.staging = TRUE]]
    /\ nextUuid' = nextUuid + 2
    /\ UNCHANGED <<backend, active, images, namedVolumes, containers, ipHigh, envBudget, aws, halo>>

\* An exception leaves the constructor: no object is bound, so the caller
\* has nothing to call a method on.
CreateFailed(c, error) ==
    [cluster[c] EXCEPT
        !.op = "none", !.pc = "failed",
        !.result = [op |-> "create", status |-> "raised", error |-> error,
                    node |-> NoIP]]

\* After a node's last bootstrap command, or when there is no node at all.
NextNode(c, idx) ==
    IF idx < Len(cluster[c].plan)
    THEN [cluster[c] EXCEPT !.pc = "start", !.idx = idx + 1, !.cmd = 0,
                            !.pass = 0, !.bootNonZero = FALSE,
                            !.sawMaster = FALSE, !.registry = NoIP]
    ELSE [cluster[c] EXCEPT !.pc = "nologin_list", !.cmd = 0, !.pass = 0,
                            !.bootNonZero = FALSE,
                            !.sawMaster = FALSE, !.registry = NoIP]

\* The cluster_backend argument of the constructor of cluster c: the caller's
\* Docker object, or the further one made for this cluster.
ClusterBackend(c) ==
    IF c \in DOMAIN backend.other THEN backend.other[c] ELSE backend

\* The first client.images.build: the Dockerfile of the backend's
\* distribution, tagged base_tag; a build may fail, and then leaves the tag
\* as it was.
BuildBase(c) ==
    /\ c \in active
    /\ cluster[c].op = "create" /\ cluster[c].pc = "build"
    /\ \E ok \in BOOLEAN :
        /\ cluster' = [cluster EXCEPT ![c] =
                IF ok THEN [@ EXCEPT !.pc = "build_docker"]
                ELSE CreateFailed(c, "BuildError")]
        /\ images' =
                IF ok
                THEN Tagged(BaseTag,
                            [distribution |-> ClusterBackend(c).distribution,
                             docker |-> FALSE, version |-> "",
                             complete |-> TRUE])
                ELSE images
    /\ UNCHANGED <<backend, active, namedVolumes, containers, ipHigh, nextUuid, envBudget, aws, halo>>

\* The second client.images.build: the Dockerfile of the backend's Docker
\* version, which adds its layer to the image base_tag refers to, tagged
\* docker_image_tag.
BuildDocker(c) ==
    /\ c \in active
    /\ cluster[c].op = "create" /\ cluster[c].pc = "build_docker"
    /\ \E ok \in BOOLEAN :
        /\ cluster' = [cluster EXCEPT ![c] =
                IF ok /\ images[BaseTag] # NoImage THEN NextNode(c, 0)
                ELSE CreateFailed(c, "BuildError")]
        /\ images' =
                IF ok /\ images[BaseTag] # NoImage
                THEN Tagged(DockerImageTag,
                            [images[BaseTag] EXCEPT
                                !.docker = TRUE,
                                !.version = ClusterBackend(c).docker_version])
                ELSE images
    /\ UNCHANGED <<backend, active, namedVolumes, containers, ipHigh, nextUuid, envBudget, aws, halo>>

\* {**a, **b} for volumes dictionaries: an entry of b replaces the entry of a
\* that has its key.
MergeMounts(a, b) == {m \in a : \A o \in b : o.host # m.host} \cup b

\* common_mounts: the certificate directory and the installer's genconf
\* directory, both inside the cluster's staging tree.
CommonMounts(c) ==
    {Mount(<<cluster[c].path, cluster[c].id, "/include/certs">>,
           "/etc/docker/certs.d", "rw"),
     Mount(<<cluster[c].path, cluster[c].id, "/genconf/serve">>,
           "/opt/dcos_install_tmp", "ro")}

\* agent_mounts = {'/sys/fs/cgroup': {...}, **common_mounts}
AgentMounts(c) ==
    MergeMounts({Mount(<<"/sys/fs/cgroup">>, "/sys/fs/cgroup", "ro")},
                CommonMounts(c))

\* The dictionary a role's loop starts its volumes from.
RoleMounts(c, role) ==
    IF role = "master" THEN CommonMounts(c) ELSE AgentMounts(c)

\* The paths of a node that get an anonymous volume each.
StatePaths(role) ==
    IF role = "master" THEN <<"/var/lib/docker", "/opt">>
    ELSE <<"/var/lib/docker", "/opt", "/var/lib/mesos/slave">>

\* Anonymous volumes all named by the first uuid drawn for the node.
UniqueMountsOneName(role, drawn) ==
    {Mount(<<Uuid4(drawn + 1)>>, StatePaths(role)[k], "rw") :
        k \in 1..Len(StatePaths(role))}

\* unique_mounts: one str(uuid.uuid4()) key for each state path, `drawn`
\* being the number of uuids drawn before.
UniqueMounts(role, drawn) ==
    {Mount(<<Uuid4(drawn + k)>>, StatePaths(role)[k], "rw") :
        k \in 1..Len(StatePaths(role))}

\* Volumes in which the role's own mounts replace the caller's.
NodeVolumesRoleWins(c, role, drawn) ==
    MergeMounts(MergeMounts(backend.mounts[role], RoleMounts(c, role)),
                UniqueMounts(role, drawn))

\* volumes={**common_mounts (or agent_mounts), **custom mounts of the role,
\*          **unique_mounts}
NodeVolumes(c, role, drawn) ==
    MergeMounts(MergeMounts(RoleMounts(c, role), backend.mounts[role]),
                UniqueMounts(role, drawn))

\* Labels in which the caller's node_type replaces the role's.
NodeLabelsCallerWins(role) ==
    [k \in DOMAIN backend.labels \cup {"node_type"} |->
        IF k \in DOMAIN backend.labels THEN backend.labels[k] ELSE role]

\* labels={**cluster_backend.docker_container_labels, **{'node_type': role}}
NodeLabels(role) ==
    [k \in DOMAIN backend.labels \cup {"node_type"} |->
        IF k = "node_type" THEN role ELSE backend.labels[k]]

\* What client.containers.run(detach=True) can do: create the container and
\* start it; refuse to create it; create it and fail to start it, which
\* leaves it behind in the state "created".
RunOutcomes(name) ==
    IF name \in Names THEN {"refused"} ELSE {"started", "refused", "not_started"}

\* `if self.masters:` in _start_dcos_container: the first of the two times
\* the method asks the provider for the masters.
RegistryHost(c) ==
    /\ c \in active
    /\ cluster[c].op = "create" /\ cluster[c].pc = "start"
    /\ cluster' = [cluster EXCEPT ![c] =
            [@ EXCEPT !.pc = "run", !.sawMaster = Masters(c) # {}]]
    /\ UNCHANGED <<backend, active, images, namedVolumes, containers, ipHigh, nextUuid, envBudget, aws, halo>>

\* extra_host_ip_address: str(next(iter(self.masters)).public_ip_address) when
\* the test saw a master, else '127.0.0.1'.  self.masters is a set, built anew
\* from the provider's list: which of its members iteration gives first is
\* not fixed.  No value at all when the masters are gone since the test.
RegistryChoices(c) ==
    IF cluster[c].sawMaster THEN Masters(c) ELSE {Loopback}

\* One turn of a role's loop: unique_mounts, then _start_dcos_container from
\* the second look at self.masters to client.containers.run.
StartContainer(c) ==
    /\ c \in active
    /\ cluster[c].op = "create" /\ cluster[c].pc = "run"
    /\ LET name == cluster[c].plan[cluster[c].idx].name
           role == cluster[c].plan[cluster[c].idx].role
           labels == NodeLabels(role)
           volumes == NodeVolumes(c, role, nextUuid)
       IN  IF RegistryChoices(c) = {}
           THEN /\ cluster' = [cluster EXCEPT ![c] =
                        CreateFailed(c, "StopIteration")]
                /\ nextUuid' = nextUuid + Len(StatePaths(role))
                /\ UNCHANGED <<containers, namedVolumes, ipHigh, aws, halo>>
           ELSE \E outcome \in RunOutcomes(name), ip \in FreeIPs,
                   registry \in RegistryChoices(c) :
            /\ containers' =
                CASE outcome = "started" -> Started(name, ip, labels, volumes)
                  [] outcome = "not_started" -> Created(name, labels, volumes)
                  [] OTHER -> containers
            /\ namedVolumes' =
                IF outcome = "refused" THEN namedVolumes
                ELSE namedVolumes \cup VolumeNames(volumes)
            /\ nextUuid' = nextUuid + Len(StatePaths(role))
            /\ ipHigh' = IF outcome = "started" /\ ip > ipHigh THEN ip ELSE ipHigh
            /\ cluster' = [cluster EXCEPT ![c] =
                IF outcome = "started"
                THEN [@ EXCEPT !.pc = "exec", !.cmd = 1, !.pass = 1,
                               !.registry = registry, !.execRuns = 0,
                               !.ran = <<>>, !.bootDone = {}]
                ELSE CreateFailed(c, "APIError")]
    /\ UNCHANGED <<backend, active, images, envBudget, aws, halo>>

\* One container.exec_run of the bootstrap loop: every command is run twice,
\* and only the second run's exit code is asserted.  A container that is gone
\* or stopped makes exec_run itself raise.
ExecBootstrap(c) ==
    /\ c \in active
    /\ cluster[c].op = "create" /\ cluster[c].pc = "exec"
    /\ LET name == cluster[c].plan[cluster[c].idx].name
           cmd == cluster[c].cmd
       IN  \E exit \in {0, 1} :
            cluster' = [cluster EXCEPT ![c] =
                IF name \notin Running THEN CreateFailed(c, "APIError")
                ELSE [(IF cluster[c].pass = 1 THEN [@ EXCEPT !.pass = 2]
                       ELSE IF exit # 0 THEN CreateFailed(c, "AssertionError")
                       ELSE IF cmd < NumBootstrapCmds
                            THEN [@ EXCEPT !.cmd = cmd + 1, !.pass = 1]
                       ELSE NextNode(c, cluster[c].idx))
                      EXCEPT !.bootNonZero = @ \/ exit # 0,
                             !.execRuns = @ + 1,
                             !.ran = IF cluster[c].pass = 1
                                     THEN Append(@, BootstrapCmds[cmd]) ELSE @,
                             !.bootDone = IF exit = 0
                                          THEN @ \cup {BootstrapCmds[cmd]}
                                          ELSE @]]
    /\ UNCHANGED <<backend, active, images, namedVolumes, containers, ipHigh, nextUuid, envBudget, aws, halo>>

\* {*self.masters, *self.agents, *self.public_agents}
NologinList(c) ==
    /\ c \in active
    /\ cluster[c].op = "create" /\ cluster[c].pc = "nologin_list"
    /\ cluster' = [cluster EXCEPT ![c] =
            [@ EXCEPT !.pc = "nologin",
                      !.pending = Masters(c) \cup Agents(c) \cup PublicAgents(c)]]
    /\ UNCHANGED <<backend, active, images, namedVolumes, containers, ipHigh, nextUuid, envBudget, aws, halo>>

\* Node.run: the command's exit code on the node at the address; 255 when no
\* running container has the address (the transport cannot connect).
NodeRunExits(ip, mayFail) ==
    IF At(ip) = {} THEN {255} ELSE IF mayFail THEN {0, 1} ELSE {0}

\* Whether Node.run raises on a non-zero exit code or hands it back: the
\* transport may do either.
NodeRunRaises(exit) == IF exit = 0 THEN {FALSE} ELSE {FALSE, TRUE}

\* run_subprocess raises CalledProcessError on a non-zero exit code.
SubprocessRaises(exit) == exit # 0

\* A clearing command that is rm alone.
OrTrueMissing(exit) == exit

\* `rm -f /run/nologin || true`, which the shell runs: the exit code of the
\* line is 0 whatever rm's is.
OrTrue(exit) == 0

\* node.run(['rm', '-f', '/run/nologin', '||', 'true'], shell=True), for one
\* node of the set; rm may fail to remove the file.
ClearNologin(c) ==
    /\ c \in active
    /\ cluster[c].op = "create" /\ cluster[c].pc = "nologin"
    /\ \E node \in cluster[c].pending :
       \E rm \in NodeRunExits(node, TRUE) :
       \E raises \in NodeRunRaises(IF rm = 255 THEN rm ELSE OrTrue(rm)) :
        cluster' = [cluster EXCEPT ![c] =
            IF raises
            THEN [CreateFailed(c, "CalledProcessError") EXCEPT
                    !.cleared = @ \cup {node},
                    !.nologinFailed = @ \/ rm # 0]
            ELSE [@ EXCEPT !.pending = @ \ {node},
                           !.cleared = @ \cup {node},
                           !.nologinFailed = @ \/ rm # 0]]
    /\ UNCHANGED <<backend, active, images, namedVolumes, containers, ipHigh, nextUuid, envBudget, aws, halo>>

\* The constructor returns: the caller holds the cluster.
CreateReturn(c) ==
    /\ c \in active
    /\ cluster[c].op = "create" /\ cluster[c].pc = "nologin"
    /\ cluster[c].pending = {}
    /\ cluster' = [cluster EXCEPT ![c] =
            [Finish(c, "create", "ok", "none", NoIP) EXCEPT !.handle = TRUE]]
    /\ UNCHANGED <<backend, active, images, namedVolumes, containers, ipHigh, nextUuid, envBudget, aws, halo>>

\* A method can be called: the caller holds the object and no call is running.
Callable(c) == c \in active /\ cluster[c].handle /\ cluster[c].op = "none"

\* ------------------------------------------------ install_dcos_from_path

\* The values a caller gives for extra_config's cluster_name; "" is an
\* extra_config without that key.
ExtraNames == {"", "X"}

\* {**base, **extra}
Merge(base, extra) ==
    [k \in DOMAIN base \cup DOMAIN extra |->
        IF k \in DOMAIN extra THEN extra[k] ELSE base[k]]

\* The caller's extra_config: none, or one that names the cluster and sets a
\* key the base config does not have.
ExtraConfig(name) ==
    IF name = "" THEN EmptyDict
    ELSE [cluster_name |-> name, oauth_enabled |-> "false"]

\* A merge in which the base config's values win.
ConfigDataBaseWins(base, extra) == Merge(extra, base)

\* config_data = {**config, **extra_config}
ConfigData(base, extra) == Merge(base, extra)

\* The config dictionary (the keys that vary) from the three accessors.
BaseConfig(c) ==
    [written |-> TRUE,
     agent_list |-> Agents(c),
     cluster_name |-> "DCOS",
     master_list |-> Masters(c),
     public_agent_list |-> PublicAgents(c)]

\* ------------------------------------------------- install_dcos_from_url

\* A url install that goes on to write the config, as the path install does.
InstallFromUrlFallsThrough(c) ==
    [cluster[c] EXCEPT
        !.config = Merge(BaseConfig(c), ExtraConfig("")),
        !.result = [op |-> "install_url", status |-> "raised",
                    error |-> "NotImplementedError", node |-> NoIP]]

InstallFromUrlEffect(c) ==
    [cluster[c] EXCEPT
        !.result = [op |-> "install_url", status |-> "raised",
                    error |-> "NotImplementedError", node |-> NoIP]]

\* install_dcos_from_url: raise NotImplementedError(message), nothing else.
InstallFromUrl(c) ==
    /\ Callable(c)
    /\ cluster' = [cluster EXCEPT ![c] = InstallFromUrlEffect(c)]
    /\ UNCHANGED <<backend, active, images, namedVolumes, containers, ipHigh, nextUuid, envBudget, aws, halo>>

\* ------------------------------------- install_dcos_from_path, continued

\* write_text preceded by a mkdir(parents=True) of the genconf directory.
WriteConfigCreatesDir(c) == TRUE

\* config_file_path.write_text(data=config_yaml) writes into the genconf
\* directory and raises FileNotFoundError when that directory is gone.
WriteConfigOk(c) == cluster[c].staging

\* The ports some generate-config step has its installer service bound to.
BoundPorts ==
    {cluster[c].port : c \in {d \in active : cluster[d].pc = "genconf_run"}}

\* _get_open_port(): binds a socket to port 0, reads the port the operating
\* system gave it, and closes the socket before it returns: the port is one
\* that nothing is bound to at that moment, and it is free again afterwards.
GetOpenPort == (1..MaxPorts) \ BoundPorts

\* installer_ctr = '{cluster_id}-installer'
InstallerCtr(c) == <<"dcos-e2e-", cluster[c].id, "-installer">>

\* An install that goes on to the generate-config step with the config file
\* not written yet.
ConfigWrittenLate(c, name, port) ==
    [NewCall(c, "install", "genconf") EXCEPT
        !.extra = name, !.staging = TRUE, !.port = port, !.waited = FALSE]

\* The call when config_file_path.write_text has written the merged config
\* and _get_open_port has returned: the generate-config step is next.
ConfigWritten(c, name, port) ==
    [NewCall(c, "install", "genconf") EXCEPT
        !.extra = name, !.staging = TRUE, !.port = port, !.waited = FALSE,
        !.config = ConfigData(BaseConfig(c), ExtraConfig(name))]

\* install_dcos_from_path up to installer_port = _get_open_port(): the config
\* is written, then the port is picked.
InstallBegin(c) ==
    /\ Callable(c)
    /\ \E name \in ExtraNames, port \in GetOpenPort :
        cluster' = [cluster EXCEPT ![c] =
            IF WriteConfigOk(c)
            THEN ConfigWritten(c, name, port)
            ELSE [NewCall(c, "install", "idle") EXCEPT
                    !.op = "none", !.extra = name, !.waited = FALSE,
                    !.result = [op |-> "install", status |-> "raised",
                                error |-> "FileNotFoundError", node |-> NoIP]]]
    /\ UNCHANGED <<backend, active, images, namedVolumes, containers, ipHigh, nextUuid, envBudget, aws, halo>>

\* A generate-config step whose exit code is not looked at.
AfterGenconfIgnored(c, exit) ==
    [cluster[c] EXCEPT !.pc = "list", !.genconfRuns = @ + 1, !.port = 0,
                       !.genconfFailed = (exit # 0)]

\* After the generate-config subprocess has ended with `exit`.
AfterGenconf(c, exit) ==
    IF SubprocessRaises(exit)
    THEN [Finish(c, "install", "raised", "CalledProcessError", NoIP)
            EXCEPT !.genconfRuns = @ + 1, !.genconfFailed = (exit # 0),
                   !.port = 0]
    ELSE [cluster[c] EXCEPT !.pc = "list", !.genconfRuns = @ + 1, !.port = 0,
                            !.genconfFailed = (exit # 0)]

\* run_subprocess(genconf_args, env={'PORT': ..., 'DCOS_INSTALLER_CONTAINER_NAME':
\* ...}) starts the installer, whose service binds the port it was given.
InstallGenconfStart(c) ==
    /\ c \in active
    /\ cluster[c].op = "install" /\ cluster[c].pc = "genconf"
    /\ cluster' = [cluster EXCEPT ![c] = [@ EXCEPT !.pc = "genconf_run"]]
    /\ UNCHANGED <<backend, active, images, namedVolumes, containers, ipHigh, nextUuid, envBudget, aws, halo>>

\* The generate-config subprocess ends, and run_subprocess returns or raises.
InstallGenconf(c) ==
    /\ c \in active
    /\ cluster[c].op = "install" /\ cluster[c].pc = "genconf_run"
    /\ \E exit \in {0, 1} :
        cluster' = [cluster EXCEPT ![c] = AfterGenconf(c, exit)]
    /\ UNCHANGED <<backend, active, images, namedVolumes, containers, ipHigh, nextUuid, envBudget, aws, halo>>

\* The role at or after `role` that still has nodes to visit; 4 when none has.
RECURSIVE SkipEmpty(_, _)
SkipEmpty(snap, role) ==
    IF role > 3 THEN 4
    ELSE IF snap[Roles[role]] # {} THEN role
    ELSE SkipEmpty(snap, role + 1)

\* Node sets remembered from the accessor calls that filled the config.
RoleSetsFromConfig(c) ==
    [r \in {"master", "agent", "public_agent"} |->
        CASE r = "master" -> cluster[c].config.master_list
          [] r = "agent" -> cluster[c].config.agent_list
          [] r = "public_agent" -> cluster[c].config.public_agent_list]

\* self.masters, self.agents, self.public_agents: each a new query.
RoleSets(c) ==
    [r \in {"master", "agent", "public_agent"} |-> Accessor(c, r)]

\* [('master', self.masters), ('slave', self.agents),
\*  ('slave_public', self.public_agents)]: the list is built, all three
\* accessors read, before the loop over it starts.
InstallList(c) ==
    /\ c \in active
    /\ cluster[c].op = "install" /\ cluster[c].pc = "list"
    /\ LET snap == RoleSets(c)
           role == SkipEmpty(snap, 1)
       IN  cluster' = [cluster EXCEPT ![c] =
                [@ EXCEPT !.pc = "nodes", !.snap = snap, !.role = role,
                          !.pending = IF role > 3 THEN {} ELSE snap[Roles[role]]]]
    /\ UNCHANGED <<backend, active, images, namedVolumes, containers, ipHigh, nextUuid, envBudget, aws, halo>>

\* Public agents installed with the agents' role argument.
RoleTokenSwapped(role) ==
    CASE role = "master" -> "master"
      [] role = "agent" -> "slave"
      [] role = "public_agent" -> "slave"

\* The role argument of dcos_install.sh for the nodes of an accessor.
RoleToken(role) ==
    CASE role = "master" -> "master"
      [] role = "agent" -> "slave"
      [] role = "public_agent" -> "slave_public"

\* After node.run(args=dcos_install_args) on `node` has ended with `exit`,
\* raising or not.
AfterInstallNode(c, node, exit, raises) ==
    LET entry == [node |-> node, token |-> RoleToken(Roles[cluster[c].role]),
                  exit |-> exit]
        failed == IF exit = 0 THEN cluster[c].failedNodes
                  ELSE cluster[c].failedNodes \cup {node}
        rest == cluster[c].pending \ {node}
        role == IF rest # {} THEN cluster[c].role
                ELSE SkipEmpty(cluster[c].snap, cluster[c].role + 1)
    IN  IF raises
        THEN [Finish(c, "install", "raised", "CalledProcessError", node)
                EXCEPT !.log = Append(@, entry), !.failedNodes = failed]
        ELSE [cluster[c] EXCEPT
                !.log = Append(@, entry), !.failedNodes = failed, !.role = role,
                !.pending = IF rest # {} THEN rest
                            ELSE IF role > 3 THEN {}
                            ELSE cluster[c].snap[Roles[role]]]

\* One node.run of the loops over the roles and their nodes; a set is
\* iterated in no particular order.
InstallNode(c) ==
    /\ c \in active
    /\ cluster[c].op = "install" /\ cluster[c].pc = "nodes"
    /\ \E node \in cluster[c].pending :
       \E exit \in NodeRunExits(node, TRUE) :
       \E raises \in NodeRunRaises(exit) :
        cluster' = [cluster EXCEPT ![c] = AfterInstallNode(c, node, exit, raises)]
    /\ UNCHANGED <<backend, active, images, namedVolumes, containers, ipHigh, nextUuid, envBudget, aws, halo>>

\* install_dcos_from_path returns (it returns None).
InstallReturn(c) ==
    /\ c \in active
    /\ cluster[c].op = "install" /\ cluster[c].pc = "nodes"
    /\ cluster[c].pending = {}
    /\ cluster' = [cluster EXCEPT ![c] = Finish(c, "install", "ok", "none", NoIP)]
    /\ UNCHANGED <<backend, active, images, namedVolumes, containers, ipHigh, nextUuid, envBudget, aws, halo>>

\* ------------------------------------------------------- the node upgrade

\* cluster.wait_for_dcos_oss(), which the upgrade test calls when its install
\* has returned: it returns when the cluster is up, or gives up and raises.
WaitForDcos(c) ==
    /\ Callable(c)
    /\ cluster[c].result.op = "install" /\ cluster[c].result.status = "ok"
    /\ ~cluster[c].waited
    /\ \E up \in BOOLEAN :
        cluster' = [cluster EXCEPT ![c] =
            IF up THEN [@ EXCEPT !.waited = TRUE]
            ELSE [@ EXCEPT !.result = [op |-> "wait", status |-> "raised",
                                       error |-> "RetryError", node |-> NoIP]]]
    /\ UNCHANGED <<backend, active, images, namedVolumes, containers, ipHigh, nextUuid, envBudget, aws, halo>>

\* The test's loops begin: the tuple of (cluster.masters, Role.MASTER),
\* (cluster.agents, Role.AGENT), (cluster.public_agents, Role.PUBLIC_AGENT) is
\* built, all three accessors read, before the first node is visited.
UpgradeBegin(c) ==
    /\ Callable(c)
    /\ cluster[c].result.op = "install" /\ cluster[c].waited
    /\ LET snap == RoleSets(c)
           role == SkipEmpty(snap, 1)
       IN  cluster' = [cluster EXCEPT ![c] =
                [NewCall(c, "upgrade", "unodes") EXCEPT
                    !.snap = snap, !.role = role,
                    !.pending = IF role > 3 THEN {} ELSE snap[Roles[role]]]]
    /\ UNCHANGED <<backend, active, images, namedVolumes, containers, ipHigh, nextUuid, envBudget, aws, halo>>

\* dcos_installer=oss_installer: the test's parameters are oss_1_11_installer
\* and oss_1_12_installer and it assigns no oss_installer, so the name is
\* bound only if the module (whose imports are not at hand) binds it;
\* otherwise evaluating the first call's arguments raises NameError.
InstallerNameBound(c) ==
    IF cluster[c].log = <<>> THEN {TRUE, FALSE} ELSE {TRUE}

\* After node.upgrade_from_dcos_path(..., role=role) on `node` has ended with
\* `exit`, raising or not; nothing around the call catches what it raises.
AfterUpgradeNode(c, node, exit, raises) ==
    LET entry == [node |-> node, token |-> Roles[cluster[c].role], exit |-> exit]
        failed == IF exit = 0 THEN cluster[c].failedNodes
                  ELSE cluster[c].failedNodes \cup {node}
        rest == cluster[c].pending \ {node}
        role == IF rest # {} THEN cluster[c].role
                ELSE SkipEmpty(cluster[c].snap, cluster[c].role + 1)
    IN  IF raises
        THEN [Finish(c, "upgrade", "raised", "CalledProcessError", node)
                EXCEPT !.log = Append(@, entry), !.failedNodes = failed]
        ELSE [cluster[c] EXCEPT
                !.log = Append(@, entry), !.failedNodes = failed, !.role = role,
                !.pending = IF rest # {} THEN rest
                            ELSE IF role > 3 THEN {}
                            ELSE cluster[c].snap[Roles[role]]]

\* One turn of `for node in nodes`: node.upgrade_from_dcos_path.
UpgradeNode(c) ==
    /\ c \in active
    /\ cluster[c].op = "upgrade" /\ cluster[c].pc = "unodes"
    /\ \E node \in cluster[c].pending :
       \E bound \in InstallerNameBound(c) :
       \E exit \in NodeRunExits(node, TRUE) :
       \E raises \in NodeRunRaises(exit) :
        cluster' = [cluster EXCEPT ![c] =
            IF bound THEN AfterUpgradeNode(c, node, exit, raises)
            ELSE Finish(c, "upgrade", "raised", "NameError", NoIP)]
    /\ UNCHANGED <<backend, active, images, namedVolumes, containers, ipHigh, nextUuid, envBudget, aws, halo>>

\* The loops are over; the `for node in nodes: pass` that follows them does
\* nothing.
UpgradeReturn(c) ==
    /\ c \in active
    /\ cluster[c].op = "upgrade" /\ cluster[c].pc = "unodes"
    /\ cluster[c].pending = {}
    /\ cluster' = [cluster EXCEPT ![c] = Finish(c, "upgrade", "ok", "none", NoIP)]
    /\ UNCHANGED <<backend, active, images, namedVolumes, containers, ipHigh, nextUuid, envBudget, aws, halo>>

\* ---------------------------------------------------------------- destroy

\* destroy() is called.
DestroyBegin(c) ==
    /\ Callable(c)
    /\ cluster' = [cluster EXCEPT ![c] =
            [NewCall(c, "destroy", "dlist") EXCEPT
                !.role = 1, !.destroyStarted = TRUE, !.waited = FALSE]]
    /\ UNCHANGED <<backend, active, images, namedVolumes, containers, ipHigh, nextUuid, envBudget, aws, halo>>

\* An exception leaves destroy().
DestroyRaised(c, error) ==
    [Finish(c, "destroy", "raised", error, NoIP)
        EXCEPT !.raisedAfter = @ \/ cluster[c].destroysOk >= 1]

\* containers = client.containers.list(filters={'name': prefix})
DestroyList(c) ==
    /\ c \in active
    /\ cluster[c].op = "destroy" /\ cluster[c].pc = "dlist"
    /\ LET found == ListContainers(Prefix(cluster[c].id, Roles[cluster[c].role]))
       IN  cluster' = [cluster EXCEPT ![c] =
                [@ EXCEPT !.pc = "dloop", !.pending = found,
                          !.listed = @ \cup found, !.prefixes = cluster[c].role]]
    /\ UNCHANGED <<backend, active, images, namedVolumes, containers, ipHigh, nextUuid, envBudget, aws, halo>>

\* Whether the daemon refuses this call for a reason of its own (permission
\* denied, a timeout): only an environment that still may act does.
FaultChoices == IF envBudget > 0 THEN {FALSE, TRUE} ELSE {FALSE}

\* A stop() that does nothing.
StopEffectNone(name) == containers

\* What container.stop() does to the daemon's containers.
StopEffect(name) ==
    IF name \in Running THEN Stopped(name) ELSE containers

\* container.stop(), for the next container of the list: NotFound when the
\* container is gone; stopping a stopped container changes nothing.
DestroyStop(c) ==
    /\ c \in active
    /\ cluster[c].op = "destroy" /\ cluster[c].pc = "dloop"
    /\ \E name \in cluster[c].pending, fault \in FaultChoices :
        /\ cluster' = [cluster EXCEPT ![c] =
            IF name \notin Names
            THEN [DestroyRaised(c, "NotFound") EXCEPT !.attempted = @ \cup {name}]
            ELSE IF fault
            THEN [DestroyRaised(c, "APIError") EXCEPT !.attempted = @ \cup {name}]
            ELSE [@ EXCEPT !.pc = "dremove", !.curr = name,
                           !.pending = @ \ {name},
                           !.attempted = @ \cup {name}]]
        /\ containers' =
            IF name \in Names /\ ~fault THEN StopEffect(name) ELSE containers
        /\ envBudget' =
            IF name \in Names /\ fault THEN envBudget - 1 ELSE envBudget
    /\ UNCHANGED <<backend, active, images, namedVolumes, ipHigh, nextUuid, aws, halo>>

\* container.remove(v=True), for the container just stopped: NotFound when it
\* is gone; the daemon refuses to remove a running container without force.
DestroyRemove(c) ==
    /\ c \in active
    /\ cluster[c].op = "destroy" /\ cluster[c].pc = "dremove"
    /\ LET name == cluster[c].curr
       IN  \E fault \in FaultChoices :
            /\ cluster' = [cluster EXCEPT ![c] =
                IF name \notin Names THEN DestroyRaised(c, "NotFound")
                ELSE IF fault \/ name \in Running THEN DestroyRaised(c, "APIError")
                ELSE [@ EXCEPT !.pc = "dloop", !.curr = NoName]]
            /\ containers' =
                IF name \in Names /\ ~fault /\ name \notin Running
                THEN Removed(name) ELSE containers
            /\ namedVolumes' =
                IF name \in Names /\ ~fault /\ name \notin Running
                THEN namedVolumes \ RemovedWith(name) ELSE namedVolumes
            /\ envBudget' =
                IF name \in Names /\ fault THEN envBudget - 1 ELSE envBudget
    /\ UNCHANGED <<backend, active, images, ipHigh, nextUuid, aws, halo>>

\* The list of one prefix is done: on to the next prefix, or to rmtree.
DestroyNext(c) ==
    /\ c \in active
    /\ cluster[c].op = "destroy" /\ cluster[c].pc = "dloop"
    /\ cluster[c].pending = {}
    /\ cluster' = [cluster EXCEPT ![c] =
            IF cluster[c].role < 3
            THEN [@ EXCEPT !.pc = "dlist", !.role = @ + 1]
            ELSE [@ EXCEPT !.pc = "drmtree"]]
    /\ UNCHANGED <<backend, active, images, namedVolumes, containers, ipHigh, nextUuid, envBudget, aws, halo>>

\* An rmtree without ignore_errors: the error of a failed removal leaves
\* destroy().
AfterRmtreeStrict(c, removed) ==
    IF removed
    THEN [Finish(c, "destroy", "ok", "none", NoIP) EXCEPT
            !.rmtree = TRUE, !.destroysOk = IF @ < 2 THEN @ + 1 ELSE @,
            !.staging = FALSE, !.config = NoConfig]
    ELSE [DestroyRaised(c, "OSError") EXCEPT !.rmtree = TRUE]

\* After rmtree(path=str(self._path), ignore_errors=True): the tree is
\* removed, or it is not and the error is ignored; destroy() returns.
AfterRmtree(c, removed) ==
    [Finish(c, "destroy", "ok", "none", NoIP) EXCEPT
        !.rmtree = TRUE, !.destroysOk = IF @ < 2 THEN @ + 1 ELSE @,
        !.staging = IF removed THEN FALSE ELSE @,
        !.config = IF removed THEN NoConfig ELSE @]

\* rmtree(path=str(self._path), ignore_errors=True), which may fail to remove
\* the tree, and the return of destroy().
DestroyRmtree(c) ==
    /\ c \in active
    /\ cluster[c].op = "destroy" /\ cluster[c].pc = "drmtree"
    /\ \E removed \in BOOLEAN :
        cluster' = [cluster EXCEPT ![c] = AfterRmtree(c, removed)]
    /\ UNCHANGED <<backend, active, images, namedVolumes, containers, ipHigh, nextUuid, envBudget, aws, halo>>

\* -------------------------------------------------------- the environment

\* Someone else removes a container (docker rm -f), and leaves its volumes.
ExtRemove ==
    /\ envBudget > 0
    /\ \E name \in Names : containers' = Removed(name)
    /\ envBudget' = envBudget - 1
    /\ UNCHANGED <<backend, active, images, namedVolumes, cluster, ipHigh, nextUuid, aws, halo>>

\* Someone else stops a container (docker stop).
ExtStop ==
    /\ envBudget > 0
    /\ \E name \in Running : containers' = Stopped(name)
    /\ envBudget' = envBudget - 1
    /\ UNCHANGED <<backend, active, images, namedVolumes, cluster, ipHigh, nextUuid, aws, halo>>

\* ------------------------------------------- the destroy-list command (AWS)

\* The cluster ids a caller may name, among them ids of no cluster.
AwsIds == {"a", "b", "c"}

\* The command is not running.
NoAws ==
    [pc |-> "none",        \* none, loop, check, instances, returned or raised
     cluster_ids |-> <<>>, \* the cluster_ids argument
     i |-> 0,              \* how many of them the loop has taken
     existing |-> {},      \* the ids of the clusters the region has
     initial |-> {},       \* the same when the command began
     log |-> <<>>]         \* what the command did for each id, in order

\* existing_cluster_ids(aws_region=aws_region): asked anew at every call.
ExistingClusterIds == aws.existing

\* check_cluster_id_exists: an error unless the id is among the existing ones.
CheckClusterIdExists(cluster_id, existing) == cluster_id \in existing

\* ClusterInstances(cluster_id, aws_region).destroy(): the instances of the
\* cluster are gone when it returns, and with them the cluster's id.
ClusterInstancesDestroy(cluster_id) == aws.existing \ {cluster_id}

\* A loop that stops at the first id that does not exist.
SkippedAborts(cluster_id) ==
    [aws EXCEPT !.pc = "raised",
                !.log = Append(@, [id |-> cluster_id, what |-> "warning"])]

\* click.echo(warning, err=True); continue
Skipped(cluster_id) ==
    [aws EXCEPT !.pc = "loop",
                !.log = Append(@, [id |-> cluster_id, what |-> "warning"])]

\* `for cluster_id in cluster_ids:` takes the next id, and the test of it
\* against the existing ids.
DestroyListNextId ==
    /\ aws.pc = "loop" /\ aws.i < Len(aws.cluster_ids)
    /\ LET cluster_id == aws.cluster_ids[aws.i + 1]
           taken == [aws EXCEPT !.i = @ + 1]
       IN  aws' = IF cluster_id \notin ExistingClusterIds
                  THEN [Skipped(cluster_id) EXCEPT !.i = taken.i]
                  ELSE [taken EXCEPT !.pc = "check"]
    /\ UNCHANGED <<backend, active, images, namedVolumes, cluster, containers, ipHigh, nextUuid, envBudget, halo>>

\* The loop has no id left: destroy_list returns.
DestroyListReturn ==
    /\ aws.pc = "loop" /\ aws.i = Len(aws.cluster_ids)
    /\ aws' = [aws EXCEPT !.pc = "returned"]
    /\ UNCHANGED <<backend, active, images, namedVolumes, cluster, containers, ipHigh, nextUuid, envBudget, halo>>

\* ctx.invoke(destroy, ...): the destroy command begins with
\* check_cluster_id_exists, whose error leaves both commands.
DestroyCheck ==
    /\ aws.pc = "check"
    /\ aws' = [aws EXCEPT !.pc =
            IF CheckClusterIdExists(aws.cluster_ids[aws.i], ExistingClusterIds)
            THEN "instances" ELSE "raised"]
    /\ UNCHANGED <<backend, active, images, namedVolumes, cluster, containers, ipHigh, nextUuid, envBudget, halo>>

\* cluster_instances.destroy() under the spinner, and click.echo(cluster_id).
DestroyInstances ==
    /\ aws.pc = "instances"
    /\ LET cluster_id == aws.cluster_ids[aws.i]
       IN  aws' = [aws EXCEPT
                !.pc = "loop",
                !.existing = ClusterInstancesDestroy(cluster_id),
                !.log = Append(@, [id |-> cluster_id, what |-> "destroyed"])]
    /\ UNCHANGED <<backend, active, images, namedVolumes, cluster, containers, ipHigh, nextUuid, envBudget, halo>>

\* ------------------------------------------------------- the Halo spinner

\* No spinner has been constructed.
NoHalo == [pc |-> "none"]

\* The numbers of frames of the spinners a caller gives (a dictionary with a
\* list of frames, each one character wide).
SpinnerFrames == {1, 2}

\* The lengths of the stripped texts a caller gives, all wider than the
\* terminal allows, and no text (None).
TextLengths == {3, 4}
NoText == 0 - 1

\* The animation argument: none, 'bounce', or any other value.
Animations == {"", "bounce", "marquee"}

\* get_terminal_columns(), on a narrow terminal.
TerminalColumns == 4

\* max([len(i) for i in self._spinner['frames']])
MaxSpinnerLength == 1

\* Halo._get_text: the text and the list of its frames, of which the model
\* keeps the length.  An animation of a text wider than the terminal has one
\* frame per position (bounce: there and back), every other text has one.
GetText(length, animation) ==
    LET terminal_width == TerminalColumns - MaxSpinnerLength - 1
    IN  [original |-> length,
         frames |->
            IF terminal_width < length /\ animation # ""
            THEN IF animation = "bounce"
                 THEN 2 * (length - terminal_width + 1)
                 ELSE length + 1
            ELSE 1]

\* A render thread that has not been made.
NoThread == [status |-> "none", pc |-> "none", frames |-> 0]

\* Halo(text, spinner, animation, enabled): the object after __init__.
NewHalo(spinner, length, animation, enabled) ==
    [pc |-> "idle",             \* where the caller is, idle between calls
     returned |-> "",           \* the call that ended last, until the next
     enabled |-> enabled,       \* self._enabled
     spinner |-> spinner,       \* len(self._spinner['frames'])
     frame_index |-> 0,         \* self._frame_index
     animation |-> animation,   \* self._animation
     text |-> GetText(length, animation),   \* self._text
     text_index |-> 0,          \* self._text_index
     spinner_thread |-> 0,      \* self._spinner_thread, 0 for None
     stop_spinner |-> FALSE,    \* self._stop_spinner.is_set()
     spinner_id |-> 0,          \* self._spinner_id, 0 for None
     threads |-> [k \in 1..MaxThreads |-> NoThread]]

\* The threads that have been made.
ThreadsMade(h) == {k \in 1..MaxThreads : h.threads[k].status # "none"}

\* A start() that does not look at the spinner id.
StartReturnsEarlyDisabledOnly(h) == ~h.enabled

\* `if not self._enabled or self._spinner_id is not None: return self`
StartReturnsEarly(h) == ~h.enabled \/ h.spinner_id # 0

\* frames[self._frame_index] raises IndexError.
FrameRaises(h, frames) == h.frame_index >= frames

\* frames[self._text_index] raises IndexError.
TextFrameRaises(h) == h.text_index >= h.text.frames

\* Halo.frame and Halo.text_frame run through by one thread with no other
\* thread in between, when neither raises.
AfterRenderFrame(h) ==
    [h EXCEPT
        !.frame_index = (@ + 1) % h.spinner,
        !.text_index = IF h.text.frames = 1 THEN @
                       ELSE (@ + 1) % h.text.frames]

\* start(text) up to the creation of the thread: the text setter, the test
\* of the spinner id, the event and the Thread object.
HaloStart ==
    /\ halo.pc = "idle"
    /\ \E length \in TextLengths \cup {NoText} :
        LET h == IF length = NoText THEN halo
                 ELSE [halo EXCEPT !.text = GetText(length, halo.animation)]
            k == Cardinality(ThreadsMade(halo)) + 1
        IN  IF StartReturnsEarly(h)
            THEN halo' = [h EXCEPT !.returned = "start"]
            ELSE /\ k <= MaxThreads
                 /\ halo' = [h EXCEPT
                        !.pc = "start_render", !.returned = "",
                        !.stop_spinner = FALSE, !.spinner_thread = k,
                        !.threads[k] = [NoThread EXCEPT !.status = "new"]]
    /\ UNCHANGED <<backend, active, images, namedVolumes, cluster, containers, ipHigh, nextUuid, envBudget, aws>>

\* The rest of start(): self._render_frame() in the caller's thread, whose
\* IndexError leaves start(); then the spinner id and the thread's start.
HaloStartRender ==
    /\ halo.pc = "start_render"
    /\ LET k == halo.spinner_thread
       IN  halo' =
            IF FrameRaises(halo, halo.spinner)
                \/ (halo.text.frames # 1 /\ TextFrameRaises(halo))
            THEN [halo EXCEPT !.pc = "idle", !.returned = "start raised"]
            ELSE [AfterRenderFrame(halo) EXCEPT
                    !.pc = "idle", !.returned = "start", !.spinner_id = k,
                    !.threads[k] = [status |-> "running", pc |-> "test",
                                    frames |-> 0]]
    /\ UNCHANGED <<backend, active, images, namedVolumes, cluster, containers, ipHigh, nextUuid, envBudget, aws>>

\* self._frame_index = 0; self._spinner_id = None; self.clear(); return self
StopReset(h) ==
    [h EXCEPT !.pc = "idle", !.returned = "stop", !.frame_index = 0,
              !.spinner_id = 0]

\* stop() up to the join: nothing when the spinner is not enabled; with a
\* thread object the event is set and the thread joined, which raises
\* RuntimeError for a thread that was never started.
HaloStop ==
    /\ halo.pc = "idle"
    /\ halo' =
        IF ~halo.enabled THEN [halo EXCEPT !.returned = "stop"]
        ELSE IF halo.spinner_thread = 0 THEN StopReset(halo)
        ELSE IF halo.threads[halo.spinner_thread].status = "new"
        THEN [halo EXCEPT !.stop_spinner = TRUE, !.returned = "stop raised"]
        ELSE [halo EXCEPT !.stop_spinner = TRUE, !.returned = "",
                          !.pc = "join"]
    /\ UNCHANGED <<backend, active, images, namedVolumes, cluster, containers, ipHigh, nextUuid, envBudget, aws>>

\* self._spinner_thread.join() returns when the thread has ended; then the
\* rest of stop().
HaloStopJoined ==
    /\ halo.pc = "join"
    /\ halo.threads[halo.spinner_thread].status = "dead"
    /\ halo' = StopReset(halo)
    /\ UNCHANGED <<backend, active, images, namedVolumes, cluster, containers, ipHigh, nextUuid, envBudget, aws>>

\* The spinner setter, first statement: self._spinner = self._get_spinner(..)
HaloSetSpinner ==
    /\ halo.pc = "idle"
    /\ \E spinner \in SpinnerFrames :
        halo' = [halo EXCEPT !.pc = "set_frame_index", !.returned = "",
                             !.spinner = spinner]
    /\ UNCHANGED <<backend, active, images, namedVolumes, cluster, containers, ipHigh, nextUuid, envBudget, aws>>

\* The spinner setter, second statement: self._frame_index = 0
HaloSetFrameIndex ==
    /\ halo.pc = "set_frame_index"
    /\ halo' = [halo EXCEPT !.pc = "set_text_index", !.frame_index = 0]
    /\ UNCHANGED <<backend, active, images, namedVolumes, cluster, containers, ipHigh, nextUuid, envBudget, aws>>

\* The spinner setter, third statement: self._text_index = 0
HaloSetTextIndex ==
    /\ halo.pc = "set_text_index"
    /\ halo' = [halo EXCEPT !.pc = "idle", !.returned = "setter",
                            !.text_index = 0]
    /\ UNCHANGED <<backend, active, images, namedVolumes, cluster, containers, ipHigh, nextUuid, envBudget, aws>>

\* The text setter: self._text = self._get_text(text)
HaloSetText ==
    /\ halo.pc = "idle"
    /\ \E length \in TextLengths :
        halo' = [halo EXCEPT !.returned = "setter",
                             !.text = GetText(length, halo.animation)]
    /\ UNCHANGED <<backend, active, images, namedVolumes, cluster, containers, ipHigh, nextUuid, envBudget, aws>>

\* The animation setter: self._animation = animation, and the text's frames
\* made again from the original text.
HaloSetAnimation ==
    /\ halo.pc = "idle"
    /\ \E animation \in Animations :
        halo' = [halo EXCEPT !.returned = "setter",
                             !.animation = animation,
                             !.text = GetText(halo.text.original, animation)]
    /\ UNCHANGED <<backend, active, images, namedVolumes, cluster, containers, ipHigh, nextUuid, envBudget, aws>>

\* A step of render thread k.
ThreadAt(k, pc) ==
    /\ halo.pc # "none"
    /\ halo.threads[k].status = "running" /\ halo.threads[k].pc = pc

\* render: `while not self._stop_spinner.is_set():` after the sleep; the
\* thread ends when the event is set.
RenderTest(k) ==
    /\ ThreadAt(k, "test")
    /\ halo' = [halo EXCEPT !.threads[k] =
            IF halo.stop_spinner THEN [@ EXCEPT !.status = "dead"]
            ELSE [@ EXCEPT !.pc = "frame"]]
    /\ UNCHANGED <<backend, active, images, namedVolumes, cluster, containers, ipHigh, nextUuid, envBudget, aws>>

\* frame: frames = self._spinner['frames']; frame = frames[self._frame_index]
\* An IndexError ends the thread.
RenderFrame(k) ==
    /\ ThreadAt(k, "frame")
    /\ halo' = [halo EXCEPT !.threads[k] =
            IF FrameRaises(halo, halo.spinner)
            THEN [@ EXCEPT !.status = "dead"]
            ELSE [@ EXCEPT !.pc = "incr", !.frames = halo.spinner]]
    /\ UNCHANGED <<backend, active, images, namedVolumes, cluster, containers, ipHigh, nextUuid, envBudget, aws>>

\* frame: self._frame_index += 1
RenderIncr(k) ==
    /\ ThreadAt(k, "incr")
    /\ halo' = [halo EXCEPT !.frame_index = @ + 1, !.threads[k].pc = "mod"]
    /\ UNCHANGED <<backend, active, images, namedVolumes, cluster, containers, ipHigh, nextUuid, envBudget, aws>>

\* frame: self._frame_index = self._frame_index % len(frames)
RenderMod(k) ==
    /\ ThreadAt(k, "mod")
    /\ halo' = [halo EXCEPT !.frame_index = @ % halo.threads[k].frames,
                            !.threads[k].pc = "text"]
    /\ UNCHANGED <<backend, active, images, namedVolumes, cluster, containers, ipHigh, nextUuid, envBudget, aws>>

\* text_frame: `if len(self._text['frames']) == 1:` returns the only frame,
\* and the thread sleeps.
RenderTextLen(k) ==
    /\ ThreadAt(k, "text")
    /\ halo' = [halo EXCEPT !.threads[k].pc =
            IF halo.text.frames = 1 THEN "test" ELSE "text_index"]
    /\ UNCHANGED <<backend, active, images, namedVolumes, cluster, containers, ipHigh, nextUuid, envBudget, aws>>

\* text_frame: frames = self._text['frames']; frame = frames[self._text_index]
\* and the index moved on; an IndexError ends the thread.
RenderTextIndex(k) ==
    /\ ThreadAt(k, "text_index")
    /\ halo' =
        IF TextFrameRaises(halo)
        THEN [halo EXCEPT !.threads[k].status = "dead"]
        ELSE [halo EXCEPT !.text_index = (@ + 1) % halo.text.frames,
                          !.threads[k].pc = "test"]
    /\ UNCHANGED <<backend, active, images, namedVolumes, cluster, containers, ipHigh, nextUuid, envBudget, aws>>

\* --------------------------------------------------------- specifications

InitDaemon ==
    /\ cluster = [c \in Clusters |-> Blank]
    /\ images = [tag \in Tags |-> NoImage]
    /\ namedVolumes = {}
    /\ containers = <<>>
    /\ ipHigh = 0
    /\ nextUuid = 0
    /\ aws = NoAws
    /\ halo = NoHalo

Init ==
    /\ InitDaemon
    /\ backend = DefaultBackend
    /\ active = {1}
    /\ envBudget = 0

\* No backend configuration has been constructed yet.
InitBackend ==
    /\ InitDaemon
    /\ backend = NoBackend
    /\ active = {1}
    /\ envBudget = 0

\* Two callers, each about to construct a cluster from the same backend.
InitTwo ==
    /\ InitDaemon
    /\ backend = DefaultBackend
    /\ active = {1, 2}
    /\ envBudget = 0

\* The configurations of a second Docker object that differ from the default
\* one in the distribution, in the Docker version or in both.
OtherBackends ==
    {b \in [distribution : SupportedDistributions,
            docker_version : DockerVersions] :
        b.distribution # DefaultBackend.distribution
            \/ b.docker_version # DefaultBackend.docker_version}

\* Two callers on one host, each about to construct a cluster, the second
\* from a Docker object of its own with another configuration.
InitTwoBackends ==
    /\ InitDaemon
    /\ \E b \in OtherBackends :
            backend = [DefaultBackend EXCEPT !.other = 2 :> b]
    /\ active = {1, 2}
    /\ envBudget = 0

InitEnv ==
    /\ InitDaemon
    /\ backend = DefaultBackend
    /\ active = {1}
    /\ envBudget = MaxEnvEvents

\* No Docker cluster: the host runs a command of the CLI only.
InitNoCluster ==
    /\ cluster = [c \in Clusters |-> Blank]
    /\ images = [tag \in Tags |-> NoImage]
    /\ namedVolumes = {}
    /\ containers = <<>>
    /\ ipHigh = 0
    /\ nextUuid = 0
    /\ backend = NoBackend
    /\ active = {}
    /\ envBudget = 0

\* `destroy-list` is called with up to MaxClusterIds ids, in a region that
\* has some of the clusters named and lacks others.
InitAws ==
    /\ InitNoCluster
    /\ halo = NoHalo
    /\ \E n \in 0..MaxClusterIds :
       \E cluster_ids \in [1..n -> AwsIds], existing \in SUBSET AwsIds :
            aws = [NoAws EXCEPT !.pc = "loop", !.cluster_ids = cluster_ids,
                                !.existing = existing, !.initial = existing]

\* A spinner has been constructed and nothing has been called on it.
InitHalo ==
    /\ InitNoCluster
    /\ aws = NoAws
    /\ \E spinner \in SpinnerFrames, length \in TextLengths,
          animation \in Animations, enabled \in BOOLEAN :
            halo = NewHalo(spinner, length, animation, enabled)

NextCreate ==
    \/ \E c \in Clusters : CreateBegin(c)
    \/ \E c \in Clusters : BuildBase(c)
    \/ \E c \in Clusters : BuildDocker(c)
    \/ \E c \in Clusters : RegistryHost(c)
    \/ \E c \in Clusters : StartContainer(c)
    \/ \E c \in Clusters : ExecBootstrap(c)
    \/ \E c \in Clusters : NologinList(c)
    \/ \E c \in Clusters : ClearNologin(c)
    \/ \E c \in Clusters : CreateReturn(c)

NextInstall ==
    \/ \E c \in Clusters : InstallFromUrl(c)
    \/ \E c \in Clusters : InstallBegin(c)
    \/ \E c \in Clusters : InstallGenconfStart(c)
    \/ \E c \in Clusters : InstallGenconf(c)
    \/ \E c \in Clusters : InstallList(c)
    \/ \E c \in Clusters : InstallNode(c)
    \/ \E c \in Clusters : InstallReturn(c)

NextDestroy ==
    \/ \E c \in Clusters : DestroyBegin(c)
    \/ \E c \in Clusters : DestroyList(c)
    \/ \E c \in Clusters : DestroyStop(c)
    \/ \E c \in Clusters : DestroyRemove(c)
    \/ \E c \in Clusters : DestroyNext(c)
    \/ \E c \in Clusters : DestroyRmtree(c)

Next == NextCreate \/ NextInstall \/ NextDestroy

NextEnv == Next \/ ExtRemove \/ ExtStop

NextTwo ==
    \/ NextCreate
    \/ \E c \in Clusters : InstallFromUrl(c)
    \/ NextDestroy

\* The upgrade test: a cluster is made, installed from a path, waited for,
\* and its nodes are upgraded one by one.
NextUpgrade ==
    \/ NextCreate
    \/ \E c \in Clusters : InstallBegin(c)
    \/ \E c \in Clusters : InstallGenconfStart(c)
    \/ \E c \in Clusters : InstallGenconf(c)
    \/ \E c \in Clusters : InstallList(c)
    \/ \E c \in Clusters : InstallNode(c)
    \/ \E c \in Clusters : InstallReturn(c)
    \/ \E c \in Clusters : WaitForDcos(c)
    \/ \E c \in Clusters : UpgradeBegin(c)
    \/ \E c \in Clusters : UpgradeNode(c)
    \/ \E c \in Clusters : UpgradeReturn(c)

\* Two clusters made side by side and installed from a path side by side.
NextTwoInstall ==
    \/ NextCreate
    \/ \E c \in Clusters : InstallBegin(c)
    \/ \E c \in Clusters : InstallGenconfStart(c)
    \/ \E c \in Clusters : InstallGenconf(c)
    \/ \E c \in Clusters : InstallList(c)
    \/ \E c \in Clusters : InstallNode(c)
    \/ \E c \in Clusters : InstallReturn(c)

NextBackend == DockerInit \/ DockerStorageDriver \/ NextCreate

\* The clusters of a backend constructed with its default arguments.
Spec == Init /\ [][Next]_vars

\* The same, with an environment that acts.
SpecEnv == InitEnv /\ [][NextEnv]_vars

\* Two clusters made and used side by side.
SpecTwo == InitTwo /\ [][NextTwo]_vars

\* The construction of a backend configuration and of a cluster from it.
\* One cluster and the upgrade test's calls.
SpecUpgrade == Init /\ [][NextUpgrade]_vars

\* Two clusters, created and installed side by side.
SpecTwoInstall == InitTwo /\ [][NextTwoInstall]_vars

NextHalo ==
    \/ HaloStart
    \/ HaloStartRender
    \/ HaloStop
    \/ HaloStopJoined
    \/ HaloSetSpinner
    \/ HaloSetFrameIndex
    \/ HaloSetTextIndex
    \/ HaloSetText
    \/ HaloSetAnimation
    \/ \E k \in 1..MaxThreads : RenderTest(k)
    \/ \E k \in 1..MaxThreads : RenderFrame(k)
    \/ \E k \in 1..MaxThreads : RenderIncr(k)
    \/ \E k \in 1..MaxThreads : RenderMod(k)
    \/ \E k \in 1..MaxThreads : RenderTextLen(k)
    \/ \E k \in 1..MaxThreads : RenderTextIndex(k)

SpecHalo == InitHalo /\ [][NextHalo]_vars

NextAws ==
    \/ DestroyListNextId
    \/ DestroyListReturn
    \/ DestroyCheck
    \/ DestroyInstances

SpecAws == InitAws /\ [][NextAws]_vars

SpecTwoBackends == InitTwoBackends /\ [][NextCreate]_vars

SpecBackend == InitBackend /\ [][NextBackend]_vars
\* ------------------------------------------------------------- the claims

K(c) == cluster[c]

\* The containers an accessor of the cluster would find.
Discoverable(c) ==
    ListContainers(Prefix(K(c).id, "master"))
        \cup ListContainers(Prefix(K(c).id, "agent"))
        \cup ListContainers(Prefix(K(c).id, "public_agent"))

RoleSet == {"master", "agent", "public_agent"}

\* C1: for masters >= 1, once the constructor has returned (and before any
\* destroy) each accessor returns as many nodes as were requested for its
\* role, no address is returned by two accessors, and no two of the
\* cluster's containers have the same address.
C1_AccessorsReturnRequestedNodes ==
    \A c \in active :
        (K(c).handle /\ ~K(c).destroyStarted /\ K(c).req.master >= 1) =>
            /\ \A r \in RoleSet : Cardinality(Accessor(c, r)) = K(c).req[r]
            /\ \A r1, r2 \in RoleSet :
                r1 # r2 => Accessor(c, r1) \cap Accessor(c, r2) = {}
            /\ \A n1, n2 \in Discoverable(c) :
                n1 # n2 => containers[n1].ip # containers[n2].ip

C1_Witness ==
    /\ K(1).handle /\ ~K(1).destroyStarted
    /\ K(1).req = [master |-> 2, agent |-> 1, public_agent |-> 1]
    /\ Cardinality(Masters(1)) = 2 /\ Cardinality(Agents(1)) = 1
    /\ Cardinality(PublicAgents(1)) = 1

\* C2: no destroy call raises, neither the first nor one made after a destroy
\* that returned, and once a destroy has returned no container is
\* discoverable under the cluster's three prefixes.
C2_DestroyIdempotent ==
    \A c \in active :
        /\ K(c).result.op = "destroy" => K(c).result.status # "raised"
        /\ ~K(c).raisedAfter
        /\ K(c).destroysOk >= 1 => Discoverable(c) = {}

\* A second destroy has returned, on a cluster that had four containers.
C2_Witness ==
    /\ K(1).destroysOk = 2 /\ K(1).op = "none"
    /\ K(1).result = [op |-> "destroy", status |-> "ok", error |-> "none",
                      node |-> NoIP]
    /\ Len(K(1).plan) = 4 /\ K(1).listed = {}
    /\ Discoverable(1) = {}

\* C3: destroy() does not raise because a container it listed is gone by the
\* time it stops or removes it.
C3_DestroyToleratesGoneContainer ==
    \A c \in active :
        ~(K(c).result.op = "destroy" /\ K(c).result.error = "NotFound")

\* C4: a destroy() that met a failure of the daemon has nonetheless listed all
\* three prefixes, tried to stop every container it listed and reached the
\* removal of the staging directory.
C4_DestroyContinuesAfterFailure ==
    \A c \in active :
        (K(c).op = "none" /\ K(c).result.op = "destroy"
            /\ K(c).result.error = "APIError") =>
            /\ K(c).prefixes = 3
            /\ K(c).listed \subseteq K(c).attempted
            /\ K(c).rmtree

\* What the failed constructor of the cluster left behind.
Leftovers(c) ==
    {n \in Names : \E r \in RoleSet : Contains(n, Prefix(K(c).id, r))}

\* C5: after the constructor has failed leaving containers or the staging
\* directory behind, the caller can call destroy on the cluster.
C5_FailedCreateCanBeDestroyed ==
    \A c \in active :
        (K(c).pc = "failed" /\ (Leftovers(c) # {} \/ K(c).staging)) =>
            ENABLED DestroyBegin(c)

\* C6: once a destroy has returned, no step starts the constructor again,
\* adds a container, runs an install script on a node or brings the staging
\* directory back.
C6_NothingAfterDestroyed ==
    [][\A c \in active :
        K(c).destroysOk >= 1 =>
            /\ cluster'[c].destroysOk >= 1
            /\ cluster'[c].op # "create"
            /\ DOMAIN containers' \subseteq DOMAIN containers
            /\ cluster'[c].log \in {K(c).log, <<>>}
            /\ (cluster'[c].staging => K(c).staging)]_vars

\* An install was called after a destroy that removed the staging directory.
C6_Witness ==
    /\ K(1).destroysOk >= 1 /\ Len(K(1).plan) >= 2
    /\ K(1).result.op = "install" /\ K(1).result.error = "FileNotFoundError"

Rank(token) ==
    CASE token = "master" -> 1 [] token = "slave" -> 2 [] token = "slave_public" -> 3
      [] OTHER -> 0

\* The token the claim names for each role.
ClaimedToken(r) ==
    CASE r = "master" -> "master" [] r = "agent" -> "slave"
      [] r = "public_agent" -> "slave_public"

Entries(c, node) == {i \in 1..Len(K(c).log) : K(c).log[i].node = node}

\* C7: an install call that returned, every script having succeeded, has run
\* the script once on every node of the cluster, with the token of the node's
\* role, masters before agents before public agents.
C7_InstallRunsScriptOncePerNode ==
    \A c \in active :
        (K(c).op = "none" /\ K(c).result.op = "install"
            /\ K(c).result.status = "ok" /\ K(c).failedNodes = {}) =>
            /\ \A r \in RoleSet : \A node \in Accessor(c, r) :
                /\ Cardinality(Entries(c, node)) = 1
                /\ \A i \in Entries(c, node) : K(c).log[i].token = ClaimedToken(r)
            /\ Len(K(c).log) =
                Cardinality(Masters(c) \cup Agents(c) \cup PublicAgents(c))
            /\ \A i, j \in 1..Len(K(c).log) :
                i < j => Rank(K(c).log[i].token) <= Rank(K(c).log[j].token)
            /\ \A i \in 1..Len(K(c).log) :
                K(c).log[i].token \in {"master", "slave", "slave_public"}

C7_Witness ==
    /\ K(1).op = "none" /\ K(1).result.op = "install"
    /\ K(1).result.status = "ok" /\ K(1).failedNodes = {}
    /\ Len(K(1).log) = 4 /\ Cardinality(Masters(1)) = 2

\* C8: an install call in which a node's script failed has still run the
\* script on every node it took from the accessors, and has ended by
\* reporting the failure, naming a node that failed.
C8_InstallFailureReportedOthersRun ==
    \A c \in active :
        (K(c).op = "none" /\ K(c).result.op = "install"
            /\ K(c).failedNodes # {}) =>
            /\ \A r \in RoleSet : \A node \in K(c).snap[r] :
                Entries(c, node) # {}
            /\ K(c).result.status = "raised"
            /\ K(c).result.node \in K(c).failedNodes

\* C9: an install call whose generate-config step failed has ended with an
\* error, having run the step once and no install script, and the cluster's
\* nodes are those the call found when it began.
C9_GenconfFailureAborts ==
    \A c \in active :
        (K(c).genconfFailed /\ K(c).result.op # "install_url") =>
            /\ K(c).op = "none"
            /\ K(c).result = [op |-> "install", status |-> "raised",
                              error |-> "CalledProcessError", node |-> NoIP]
            /\ K(c).genconfRuns = 1
            /\ K(c).log = <<>>
            /\ K(c).config.master_list = Masters(c)
            /\ K(c).config.agent_list = Agents(c)
            /\ K(c).config.public_agent_list = PublicAgents(c)

C9_Witness ==
    /\ K(1).genconfFailed /\ K(1).op = "none" /\ K(1).result.op = "install"
    /\ Cardinality(Discoverable(1)) = 4

\* C10: a step that ends an install_dcos_from_url call ends it with
\* NotImplementedError and changes nothing else: not the containers, not the
\* staging directory or the config in it, and no script or subprocess is run.
C10_InstallFromUrlOnlyRaises ==
    [][\A c \in active :
        (cluster'[c].result.op = "install_url") =>
            /\ cluster'[c].result.status = "raised"
            /\ cluster'[c].result.error = "NotImplementedError"
            /\ cluster'[c] = [K(c) EXCEPT !.result = cluster'[c].result]
            /\ containers' = containers]_vars

C10_Witness ==
    /\ K(1).result.op = "install_url" /\ K(1).staging
    /\ Cardinality(Discoverable(1)) = 4 /\ ~K(1).config.written

\* The distributions the backend is said to support.
ClaimedSupported == {"CENTOS_7", "COREOS"}

\* C11: once the constructor of the backend configuration has been given a
\* distribution outside the supported set, it has raised, and nothing has
\* been asked of the provider: no storage-driver query was made, no cluster
\* construction (no image build) has begun and no container exists.
C11_UnsupportedDistributionRaisesFirst ==
    (backend.pc # "new" /\ backend.distribution \notin ClaimedSupported) =>
        /\ backend.pc = "raised"
        /\ backend.providerCalls = 0
        /\ Names = {}
        /\ \A c \in Clusters : cluster[c].pc = "new"

C11_Witness ==
    /\ backend.pc = "raised"
    /\ backend.distribution = "UBUNTU_16_04"

\* C12: when a bootstrap command has exited non-zero on the node that the
\* constructor is bootstrapping, the creation has aborted with an error: it
\* is not at a further exec_run on that node nor at a further node, and it
\* has not returned a cluster.
C12_BootstrapFailureAborts ==
    \A c \in active :
        K(c).bootNonZero =>
            /\ K(c).pc = "failed"
            /\ K(c).result.op = "create"
            /\ K(c).result.status = "raised"

\* The names of the containers a cluster's constructor starts, and the
\* cluster's staging directory (workspace_dir / uuid / cluster id).
PlannedNames(c) == {K(c).plan[k].name : k \in 1..Len(K(c).plan)}
StagingDir(c) == <<K(c).path, "/", "dcos-e2e-", K(c).id>>
Constructed(c) == c \in active /\ K(c).id # ""

\* Two clusters share no container name and no staging directory.
NothingShared ==
    \A c, d \in Clusters :
        (c # d /\ Constructed(c) /\ Constructed(d)) =>
            /\ PlannedNames(c) \cap PlannedNames(d) = {}
            /\ \A n \in Names :
                ~(Contains(n, <<"dcos-e2e-", K(c).id>>)
                    /\ Contains(n, <<"dcos-e2e-", K(d).id>>))
            /\ StagingDir(c) # StagingDir(d)
            /\ K(c).id # K(d).id

\* C13: two clusters created side by side never share a container name nor a
\* staging directory, and no step of any operation (construction, install,
\* destroy) changes the identity token of a cluster once it has one, nor its
\* staging path, nor any of the three prefixes derived from the token.
C13_DistinctAndStableIdentity ==
    [][/\ NothingShared'
       /\ \A c \in Clusters :
            Constructed(c) =>
                /\ K(c)'.id = K(c).id
                /\ K(c)'.path = K(c).path
                /\ \A r \in {"master", "agent", "public_agent"} :
                    Prefix(K(c)'.id, r) = Prefix(K(c).id, r)]_vars

C13_Witness ==
    /\ K(1).op = "create" /\ K(2).op = "create"
    /\ \E n, m \in Running :
        /\ n \in PlannedNames(1)
        /\ m \in PlannedNames(2)

\* C14: a destroy() that has dealt with its containers goes on to remove the
\* staging tree: the removal can succeed, and then the tree and the config in
\* it are gone; when it fails the tree is left as it was; and in either case
\* destroy() returns normally.
C14_DestroyRemovesStagingNeverRaises ==
    [][\A c \in Clusters :
        (K(c).pc = "drmtree" /\ K(c)' # K(c)) =>
            /\ ENABLED (DestroyRmtree(c) /\ ~cluster'[c].staging)
            /\ K(c)'.result =
                [op |-> "destroy", status |-> "ok", error |-> "none",
                 node |-> NoIP]
            /\ K(c)'.rmtree
            /\ \/ ~K(c)'.staging /\ ~K(c)'.config.written
               \/ K(c)'.staging = K(c).staging /\ K(c)'.config = K(c).config]_vars

\* A destroy() has returned normally although the tree is still there.
C14_Witness ==
    /\ K(1).result.op = "destroy" /\ K(1).result.status = "ok"
    /\ K(1).rmtree
    /\ K(1).staging

\* C15: from the return of the constructor to the start of the first
\* destroy(), no step of an install call (nor any other step of the program)
\* changes the number of nodes that the masters, agents or public_agents
\* accessor returns.
C15_NodeCountsConstantUntilDestroy ==
    [][\A c \in Clusters :
        (K(c).handle /\ ~K(c).destroyStarted /\ ~K(c)'.destroyStarted) =>
            \A r \in {"master", "agent", "public_agent"} :
                Cardinality(Accessor(c, r))' = Cardinality(Accessor(c, r))]_vars

\* An install call has run to its end on a cluster of two masters, an agent
\* and a public agent, and no destroy() has begun.
C15_Witness ==
    /\ K(1).handle /\ ~K(1).destroyStarted
    /\ K(1).result.op = "install" /\ K(1).result.status = "ok"
    /\ Len(K(1).log) = 4
    /\ Cardinality(Masters(1)) = 2
    /\ Cardinality(Agents(1)) = 1
    /\ Cardinality(PublicAgents(1)) = 1

\* The addresses of the running containers whose name begins with the
\* cluster's prefix for the role.
StartsWith(name, text) ==
    /\ Len(name) >= Len(text)
    /\ SubSeq(name, 1, Len(text)) = text

LiveUnder(c, r) ==
    {containers[n].ip :
        n \in {m \in DOMAIN containers :
                /\ containers[m].status = "running"
                /\ StartsWith(m, <<"dcos-e2e-", K(c).id>> \o RoleTok(r))}}

\* C16: every time a method reads the accessors (the constructor for the
\* nologin loop, install_dcos_from_path for the config and again for the
\* install loops), each result is exactly the set of running containers under
\* the role's prefix at that moment; nothing is remembered from an earlier
\* call, so a container removed in between is not in the later result.
C16_AccessorsRequeryProvider ==
    [][\A c \in Clusters :
        /\ (K(c).pc = "list" /\ K(c)'.pc = "nodes") =>
                \A r \in {"master", "agent", "public_agent"} :
                    K(c)'.snap[r] = LiveUnder(c, r)
        /\ (K(c).op # "install" /\ K(c)'.op = "install") =>
                /\ K(c)'.config.master_list = LiveUnder(c, "master")
                /\ K(c)'.config.agent_list = LiveUnder(c, "agent")
                /\ K(c)'.config.public_agent_list = LiveUnder(c, "public_agent")
        /\ (K(c).pc = "nologin_list" /\ K(c)'.pc = "nologin") =>
                K(c)'.pending =
                    LiveUnder(c, "master") \cup LiveUnder(c, "agent")
                        \cup LiveUnder(c, "public_agent")]_vars

\* A master that the first reading of install_dcos_from_path found was
\* removed before the second reading, which does not have it.
C16_Witness ==
    /\ K(1).op = "install" /\ K(1).pc = "nodes"
    /\ K(1).config.master_list \ K(1).snap.master # {}
    /\ K(1).snap.master = LiveUnder(1, "master")

\* C17: the config that install_dcos_from_path writes has, for every key of
\* extra_config, the caller's value (cluster_name 'X' in place of 'DCOS', and
\* a key the base config lacks), for every other key of the base config the
\* base value, and no further key.
C17_ConfigIsBaseOverriddenByExtra ==
    [][\A c \in Clusters :
        (K(c).op # "install" /\ K(c)'.op = "install") =>
            LET base == BaseConfig(c)
                extra == ExtraConfig(K(c)'.extra)
                data == K(c)'.config
            IN  /\ DOMAIN data = DOMAIN base \cup DOMAIN extra
                /\ \A k \in DOMAIN extra : data[k] = extra[k]
                /\ \A k \in DOMAIN base \ DOMAIN extra : data[k] = base[k]
                /\ base.cluster_name = "DCOS"]_vars

\* A config written for a cluster with nodes, from an extra_config that
\* names the cluster 'X'.
C17_Witness ==
    /\ K(1).op = "install" /\ K(1).pc = "genconf"
    /\ K(1).extra = "X"
    /\ K(1).config.cluster_name = "X"
    /\ K(1).config.oauth_enabled = "false"
    /\ Cardinality(K(1).config.master_list) = 2
    /\ K(1).config.agent_list # {}

\* The clusters and roles under whose prefix a container's name begins.
OwnersOf(n) ==
    {cr \in Clusters \X {"master", "agent", "public_agent"} :
        /\ Constructed(cr[1])
        /\ StartsWith(n, <<"dcos-e2e-", K(cr[1]).id>> \o RoleTok(cr[2]))}

\* C18: the labels of every container the constructor has made are the
\* caller's docker_container_labels with the role label on top: node_type is
\* the role of the node (master, agent or public_agent) whether or not the
\* caller gave a node_type label, every other label of the caller is there
\* with the caller's value, and there is no further label.
C18_RoleLabelWinsOthersKept ==
    \A n \in Names :
        /\ Cardinality(OwnersOf(n)) = 1
        /\ \A cr \in OwnersOf(n) :
            /\ DOMAIN containers[n].labels =
                    DOMAIN backend.labels \cup {"node_type"}
            /\ containers[n].labels.node_type = cr[2]
            /\ \A k \in DOMAIN backend.labels \ {"node_type"} :
                    containers[n].labels[k] = backend.labels[k]

\* A public agent of a backend whose caller gave a node_type label and
\* another label.
C18_Witness ==
    /\ backend.labels = [node_type |-> "mine", owner |-> "me"]
    /\ \E n \in Running :
        /\ <<1, "public_agent">> \in OwnersOf(n)
        /\ containers[n].labels = [node_type |-> "public_agent", owner |-> "me"]
    /\ \E n \in Running : <<1, "master">> \in OwnersOf(n)

\* The runtime-state paths that are said to get an anonymous volume.
ClaimedStatePaths(r) ==
    IF r = "master" THEN {"/var/lib/docker", "/opt"}
    ELSE {"/var/lib/docker", "/opt", "/var/lib/mesos/slave"}

\* The entries of a volumes dictionary whose key is a generated name.
Anonymous(volumes) ==
    {m \in volumes :
        Len(m.host) = 1 /\ \E i \in 1..Len(UuidTok) : m.host[1] = UuidTok[i]}

\* C19: the volumes of every container the constructor has made hold each
\* custom mount the caller gave for the container's role, target and mode
\* unchanged, the two common mounts (certificates and genconf), and one
\* read-write anonymous volume for each runtime-state path of the role:
\* /var/lib/docker and /opt, and /var/lib/mesos/slave for agents and public
\* agents.
C19_MountsKeepCustomCommonAnonymous ==
    \A n \in Names :
        \A cr \in OwnersOf(n) :
            LET volumes == containers[n].volumes
            IN  /\ backend.mounts[cr[2]] \subseteq volumes
                /\ CommonMounts(cr[1]) \subseteq volumes
                /\ {m.bind : m \in Anonymous(volumes)} = ClaimedStatePaths(cr[2])
                /\ \A m \in Anonymous(volumes) : m.mode = "rw"
                /\ Cardinality(Anonymous(volumes)) =
                        Cardinality(ClaimedStatePaths(cr[2]))

\* An agent of a backend whose caller gave the agents a read-write mount of
\* /sys/fs/cgroup, the path the agents' own read-only mount has.
C19_Witness ==
    /\ Mount(<<"/sys/fs/cgroup">>, "/sys/fs/cgroup", "rw") \in backend.mounts.agent
    /\ \E n \in Running :
        /\ <<1, "agent">> \in OwnersOf(n)
        /\ Mount(<<"/sys/fs/cgroup">>, "/sys/fs/cgroup", "rw")
                \in containers[n].volumes
        /\ Cardinality(containers[n].volumes) = 6
    /\ \E n \in Running : <<1, "master">> \in OwnersOf(n)

\* C20: no generated volume name is used twice: two anonymous volumes with
\* the same name are one volume of one container, whatever the roles and the
\* clusters of the containers; and a container has as many generated names as
\* it has runtime-state paths.
C20_AnonymousVolumeNamesUnique ==
    \A n1, n2 \in Names :
        /\ \A m1 \in Anonymous(containers[n1].volumes) :
           \A m2 \in Anonymous(containers[n2].volumes) :
                m1.host = m2.host => (n1 = n2 /\ m1 = m2)
        /\ \A cr \in OwnersOf(n1) :
                Cardinality({m.host : m \in Anonymous(containers[n1].volumes)})
                    = Cardinality(ClaimedStatePaths(cr[2]))

\* Two clusters under construction at once, each with a container.
C20_Witness ==
    /\ K(1).op = "create" /\ K(2).op = "create"
    /\ \E n1, n2 \in Running :
        /\ OwnersOf(n1) = {<<1, "master">>}
        /\ OwnersOf(n2) = {<<2, "agent">>}
        /\ Cardinality(Anonymous(containers[n1].volumes)) = 2
        /\ Cardinality(Anonymous(containers[n2].volumes)) = 3

\* --------------------------------------------------------------------- C21

\* The first master of cluster c, as the claim has it: the container the
\* constructor starts first, when that is a master.
FirstMasterName(c) == K(c).plan[1].name

\* C21: a node's extra-hosts entry for registry.local is the address of the
\* cluster's first master if a master exists when the node is provisioned,
\* and 127.0.0.1 otherwise.
C21_RegistryHostIsFirstMaster ==
    \A c \in active :
        K(c).op = "create" /\ K(c).pc = "exec" =>
            K(c).registry =
                IF K(c).idx > 1 /\ K(c).plan[1].role = "master"
                THEN containers[FirstMasterName(c)].ip
                ELSE Loopback

\* --------------------------------------------------------------------- C22

\* What a build of a cluster leaves under a tag when it runs alone.
ClaimedOutput(tag) ==
    [distribution |-> backend.distribution, docker |-> tag = DockerImageTag,
     version |-> IF tag = DockerImageTag THEN backend.docker_version ELSE "",
     complete |-> TRUE]

\* A build of cluster c is about to run and can succeed.
BuildCanSucceed(c) ==
    /\ K(c).pc = "build" =>
            ENABLED (BuildBase(c) /\ cluster'[c].pc = "build_docker")
    /\ K(c).pc = "build_docker" =>
            ENABLED (BuildDocker(c) /\ cluster'[c].pc \in {"start", "nologin_list"})

GenconfRunning(c) ==
    c \in active /\ K(c).op = "install" /\ K(c).pc = "genconf_run"

\* C23: two install_dcos_from_path runs whose generate-config steps run at
\* the same time were given different PORT values and different
\* DCOS_INSTALLER_CONTAINER_NAME values.
C23_ConcurrentInstallsDistinctPortAndName ==
    \A c, d \in Clusters :
        c # d /\ GenconfRunning(c) /\ GenconfRunning(d) =>
            /\ K(c).port # K(d).port
            /\ InstallerCtr(c) # InstallerCtr(d)

\* --------------------------------------------------------------------- C24

\* C24: an upgrade pass runs on a cluster that was installed and waited for;
\* it upgrades the nodes role by role, masters, then agents, then public
\* agents, each node once and with the role of the accessor that returned it;
\* and a pass in which a node's upgrade failed has still upgraded every node
\* and has ended by reporting the failure, naming a node that failed.
C24_UpgradeEveryNodeOnceFailureReported ==
    \A c \in active :
        (K(c).op = "upgrade" \/ K(c).result.op = "upgrade") =>
            /\ K(c).waited
            /\ \A i \in 1..Len(K(c).log) :
                /\ K(c).log[i].token \in RoleSet
                /\ K(c).log[i].node \in K(c).snap[K(c).log[i].token]
            /\ \A i, j \in 1..Len(K(c).log) :
                i < j =>
                    /\ K(c).log[i].node # K(c).log[j].node
                    /\ \/ K(c).log[i].token = K(c).log[j].token
                       \/ K(c).log[i].token = "master"
                       \/ K(c).log[j].token = "public_agent"
            /\ K(c).op = "none" =>
                /\ \A r \in RoleSet : \A node \in K(c).snap[r] :
                    Cardinality(Entries(c, node)) = 1
                /\ K(c).failedNodes # {} =>
                    /\ K(c).result.status = "raised"
                    /\ K(c).result.node \in K(c).failedNodes

\* --------------------------------------------------------------------- C25

\* C25: each bootstrap command is executed exactly once on the node: while
\* the node is bootstrapped no more exec_run calls have been made on it than
\* commands begun, and NumBootstrapCmds calls when it is done.
C25_BootstrapCommandsRunOnce ==
    \A c \in active :
        /\ K(c).op = "create" /\ K(c).pc = "exec" => K(c).execRuns <= K(c).cmd
        /\ K(c).op = "create" /\ K(c).pc \in {"start", "run", "nologin_list", "nologin"} =>
                K(c).execRuns \in {0, NumBootstrapCmds}

\* --------------------------------------------------------------------- C26

\* The order the claim gives the bootstrap commands.
ClaimedOrder ==
    <<"mkdir_var_lib_dcos", "echo_systemd_support_false_to_mesos_slave_common",
      "systemctl_start_sshd", "mkdir_root_ssh",
      "echo_public_key_to_authorized_keys">>

Ran(c, command) == \E i \in 1..Len(K(c).ran) : K(c).ran[i] = command

\* C26: on every node the bootstrap commands are first run in the claimed
\* order, none left out; the state directory has been created when the
\* disable line is written and the SSH directory when the key is appended;
\* and a node that is done has run all five, each with success.
C26_BootstrapOrderFixed ==
    \A c \in active :
        /\ Len(K(c).ran) <= Len(ClaimedOrder)
        /\ \A i \in 1..Len(K(c).ran) : K(c).ran[i] = ClaimedOrder[i]
        /\ Ran(c, "echo_systemd_support_false_to_mesos_slave_common") =>
                "mkdir_var_lib_dcos" \in K(c).bootDone
        /\ Ran(c, "echo_public_key_to_authorized_keys") =>
                "mkdir_root_ssh" \in K(c).bootDone
        /\ (K(c).execRuns > 0 /\ (K(c).handle \/ K(c).pc \in
                {"start", "run", "nologin_list", "nologin"})) =>
                /\ K(c).ran = ClaimedOrder
                /\ K(c).bootDone = {ClaimedOrder[i] : i \in 1..Len(ClaimedOrder)}

C26_Witness ==
    /\ K(1).op = "create" /\ K(1).pc = "exec" /\ K(1).idx = 3
    /\ K(1).ran = ClaimedOrder /\ K(1).pass = 2
    /\ K(1).bootNonZero

\* --------------------------------------------------------------------- C27

\* The k-th node of a creation as the claim orders them: the masters 1..m,
\* then the agents 1..a, then the public agents 1..p, each named by its role
\* prefix and its number.
ClaimedNode(c, k) ==
    LET m == K(c).req.master
        a == K(c).req.agent
    IN  IF k <= m
        THEN [role |-> "master", name |-> Hostname(Prefix(K(c).id, "master"), k)]
        ELSE IF k <= m + a
        THEN [role |-> "agent",
              name |-> Hostname(Prefix(K(c).id, "agent"), k - m)]
        ELSE [role |-> "public_agent",
              name |-> Hostname(Prefix(K(c).id, "public_agent"), k - m - a)]

\* The node at hand, or the last one, has run every bootstrap command with
\* success.
Bootstrapped(c) ==
    K(c).bootDone = {ClaimedOrder[i] : i \in 1..Len(ClaimedOrder)}

\* C27: creation provisions the nodes one after another in the claimed order
\* and under the claimed names: a container of the cluster is one of the
\* claimed nodes, it exists only when the creation has come to it and every
\* node before it is running, it carries its role, and the creation goes on
\* to a node only when the node before it is bootstrapped; so an agent or
\* public agent exists only when all masters are up and bootstrapped.
C27_NodesProvisionedInOrder ==
    \A c \in active :
        (K(c).id # "" /\ ~K(c).destroyStarted) =>
            /\ \A n \in Names :
                Contains(n, <<"dcos-e2e-", K(c).id>>) =>
                    \E k \in 1..Size(K(c).req) : n = ClaimedNode(c, k).name
            /\ \A k \in 1..Size(K(c).req) :
                ClaimedNode(c, k).name \in Names =>
                    /\ k <= K(c).idx
                    /\ containers[ClaimedNode(c, k).name].labels["node_type"]
                            = ClaimedNode(c, k).role
                    /\ \A j \in 1..(k - 1) : ClaimedNode(c, j).name \in Running
            /\ (K(c).op = "create" /\ K(c).pc \in {"start", "run"} /\ K(c).idx > 1)
                    => Bootstrapped(c)
            /\ (K(c).op = "create" /\ K(c).pc \in {"nologin_list", "nologin"}
                    /\ Size(K(c).req) > 0)
                    => K(c).idx = Size(K(c).req) /\ Bootstrapped(c)

C27_Witness ==
    /\ K(1).op = "create" /\ K(1).pc = "exec" /\ K(1).idx = 4
    /\ K(1).req.master = 2
    /\ ClaimedNode(1, 4).role = "public_agent"
    /\ ClaimedNode(1, 4).name \in Running

\* --------------------------------------------------------------------- C28

\* The cluster_name of the config file an install call with the extra_config
\* at hand writes.
ClaimedClusterName(c) == IF K(c).extra = "" THEN "DCOS" ELSE K(c).extra

\* C28: while the generate-config step of an install call is about to start
\* or running, the call's merged config file is in the staging area and no
\* install script has been started; and an install script has been started
\* only when the generate-config step has run, once, and ended with success.
C28_ConfigThenGenconfThenScripts ==
    \A c \in active :
        /\ (K(c).op = "install" /\ K(c).pc \in {"genconf", "genconf_run"}) =>
            /\ K(c).staging /\ K(c).config.written
            /\ K(c).config.cluster_name = ClaimedClusterName(c)
            /\ K(c).genconfRuns = 0
            /\ K(c).log = <<>>
        /\ ((K(c).op = "install" \/ K(c).result.op = "install")
                /\ K(c).log # <<>>) =>
            /\ K(c).genconfRuns = 1 /\ ~K(c).genconfFailed
            /\ K(c).config.written
            /\ K(c).config.cluster_name = ClaimedClusterName(c)

C28_Witness ==
    /\ K(1).op = "install" /\ K(1).pc = "nodes"
    /\ Len(K(1).log) = 1 /\ K(1).extra = "X"
    /\ K(1).genconfRuns = 1 /\ Cardinality(Masters(1)) = 2

\* --------------------------------------------------------------------- C29

\* The generated volumes of the containers the daemon has.
VolumesInUse ==
    UNION {{m.host : m \in Anonymous(containers[n].volumes)} : n \in Names}

\* C29: in destroy() the container about to be removed has been stopped; the
\* generated volumes of a removed container are removed with it, so the
\* daemon keeps no volume that no container has; and rmtree is reached only
\* when the lists of all three prefixes have been gone through.
C29_DestroyStopsRemovesWithVolumes ==
    /\ namedVolumes \subseteq VolumesInUse
    /\ \A c \in active :
        /\ (K(c).op = "destroy" /\ K(c).pc = "dremove" /\ K(c).curr \in Names) =>
                containers[K(c).curr].status = "exited"
        /\ (K(c).op = "destroy" /\ K(c).pc = "drmtree") =>
                K(c).prefixes = 3 /\ K(c).pending = {}
        /\ K(c).rmtree => K(c).prefixes = 3

\* --------------------------------------------------------------------- C30

\* C30: the nologin loop starts when every node of the request is provisioned
\* and bootstrapped, its set is the nodes of all three roles, a creation that
\* returned has visited every one of them, and a creation in which rm failed
\* on a node has not raised.
C30_NologinClearedEverywhereBestEffort ==
    \A c \in active :
        /\ (K(c).op = "create" /\ K(c).pc = "nologin") =>
            /\ K(c).idx = Size(K(c).req)
            /\ Size(K(c).req) > 0 => Bootstrapped(c)
            /\ K(c).cleared \cup K(c).pending =
                    Masters(c) \cup Agents(c) \cup PublicAgents(c)
            /\ K(c).cleared \cap K(c).pending = {}
            /\ Cardinality(K(c).cleared \cup K(c).pending) = Size(K(c).req)
        /\ (K(c).op = "create" /\ K(c).pc # "nologin") => K(c).cleared = {}
        /\ (K(c).handle /\ K(c).result.op = "create") =>
            /\ K(c).result.status = "ok"
            /\ K(c).cleared = Masters(c) \cup Agents(c) \cup PublicAgents(c)
            /\ Cardinality(K(c).cleared) = Size(K(c).req)
        /\ K(c).nologinFailed =>
                K(c).pc # "failed" /\ (K(c).result.op = "create" =>
                    K(c).result.status = "ok")

C30_Witness ==
    /\ K(1).handle /\ K(1).result.op = "create" /\ K(1).nologinFailed
    /\ Cardinality(K(1).cleared) = 4

\* --------------------------------------------------------------------- C31

\* The image a build of cluster c makes when it runs alone.
OwnImage(c) ==
    [distribution |-> ClusterBackend(c).distribution, docker |-> TRUE,
     version |-> ClusterBackend(c).docker_version, complete |-> TRUE]

\* The containers of cluster c that the daemon holds.
ContainersOf(c) ==
    {K(c).plan[k].name : k \in 1..Len(K(c).plan)} \cap Names

\* C31: every container of a cluster is started from an image of the
\* distribution and the Docker version of that cluster's own backend, also
\* when a cluster of another configuration is created on the host at the same
\* time.
C31_ContainersFromOwnImage ==
    \A c \in active : \A n \in ContainersOf(c) :
        containers[n].image = OwnImage(c)

\* --------------------------------------------------------------------- C32

\* Master number 1 of cluster c, by its hostname.
MasterNumberOne(c) == Hostname(Prefix(K(c).id, "master"), 1)

\* C32: in a cluster of two or more masters, a node provisioned after the
\* first master gets the address of master number 1 for registry.local,
\* whichever way the provider lists the masters.
C32_RegistryHostIsMasterOne ==
    \A c \in active :
        (/\ K(c).op = "create" /\ K(c).pc = "exec"
         /\ K(c).req.master >= 2 /\ K(c).idx > 1) =>
            /\ MasterNumberOne(c) \in Running
            /\ K(c).registry = containers[MasterNumberOne(c)].ip

\* --------------------------------------------------------------------- C33

\* The addresses written to the three node lists of cluster c's config.
ConfigNodes(c) ==
    K(c).config.master_list \cup K(c).config.agent_list
        \cup K(c).config.public_agent_list

\* The nodes on which the install script of cluster c was run.
ScriptNodes(c) == {K(c).log[i].node : i \in 1..Len(K(c).log)}

\* C33: the nodes on which install_dcos_from_path runs the install script are
\* those whose addresses it wrote to master_list, agent_list and
\* public_agent_list, also when a container is removed from outside while the
\* install is going on.
C33_ScriptNodesAreConfigNodes ==
    \A c \in active :
        /\ (K(c).op = "install" /\ K(c).pc = "nodes") =>
                /\ K(c).snap.master = K(c).config.master_list
                /\ K(c).snap.agent = K(c).config.agent_list
                /\ K(c).snap.public_agent = K(c).config.public_agent_list
        /\ (K(c).result.op = "install" /\ K(c).result.status = "ok") =>
                ScriptNodes(c) = ConfigNodes(c)

\* --------------------------------------------------------------------- C34

\* The containers whose name begins with the id of cluster d.
NamedAfter(d) == {n \in Names : StartsWith(n, <<"dcos-e2e-", K(d).id>>)}

\* C34: no step of the destroy() of one cluster stops or removes a container
\* of another cluster or deletes the other's staging directory, whatever the
\* two clusters' operations are doing.
C34_DestroyLeavesOtherClusterAlone ==
    [][\A c, d \in Clusters :
        (c # d /\ K(c).op = "destroy" /\ K(c)' # K(c) /\ Constructed(d)) =>
            /\ \A n \in NamedAfter(d) \cup PlannedNames(d) :
                n \in Names =>
                    n \in DOMAIN containers' /\ containers'[n] = containers[n]
            /\ K(d)'.staging = K(d).staging
            /\ K(c).pc = "drmtree" => StagingDir(c) # StagingDir(d)]_vars

\* The destroy() of cluster 1 has stopped and removed a container and is at
\* its rmtree while a container of cluster 2 runs.
C34_Witness ==
    /\ K(1).op = "destroy" /\ K(1).pc = "drmtree" /\ K(1).attempted # {}
    /\ K(2).staging
    /\ \E n \in Running : n \in PlannedNames(2)

\* --------------------------------------------------------------------- C35

\* C35: when destroy() has returned normally, the daemon holds no container
\* under one of the cluster's prefixes, running or stopped, also when a
\* container was stopped already at the time destroy() was called.
C35_DestroyLeavesNoContainer ==
    \A c \in active :
        (K(c).op = "none" /\ K(c).result.op = "destroy"
            /\ K(c).result.status = "ok") =>
            Leftovers(c) = {}

\* --------------------------------------------------------------------- C36

\* Whether the k-th id given exists when the loop reaches it: the region had
\* it when the command began and no earlier turn has destroyed it.
ExistsWhenReached(k) ==
    /\ aws.cluster_ids[k] \in aws.initial
    /\ \A j \in 1..(k - 1) : aws.cluster_ids[j] # aws.cluster_ids[k]

\* C36: destroy-list takes the ids in the order given; an id that does not
\* exist when its turn comes gets a warning and the loop goes on, every other
\* id is destroyed, and no id is destroyed twice however often it is given.
C36_DestroyListWarnsSkipsDestroysOnce ==
    aws.pc # "none" =>
        /\ aws.pc # "raised"
        /\ Len(aws.log) =
                IF aws.pc \in {"check", "instances"} THEN aws.i - 1 ELSE aws.i
        /\ aws.pc = "returned" => Len(aws.log) = Len(aws.cluster_ids)
        /\ \A k \in 1..Len(aws.log) :
            /\ aws.log[k].id = aws.cluster_ids[k]
            /\ aws.log[k].what =
                    IF ExistsWhenReached(k) THEN "destroyed" ELSE "warning"
        /\ \A k, j \in 1..Len(aws.log) :
                (aws.log[k].what = "destroyed" /\ aws.log[j].what = "destroyed"
                    /\ aws.log[k].id = aws.log[j].id) => k = j
        /\ aws.existing =
                aws.initial \ {aws.log[k].id : k \in 1..Len(aws.log)}

\* The command has returned after an id it destroyed, the same id again, for
\* which it warned, and an id of no cluster.
C36_Witness ==
    /\ aws.pc = "returned" /\ Len(aws.log) = 3
    /\ aws.log[1].what = "destroyed"
    /\ aws.log[2] = [id |-> aws.log[1].id, what |-> "warning"]
    /\ aws.log[3].id \notin aws.initial /\ aws.log[3].what = "warning"

\* --------------------------------------------------------------------- C37

\* C37: whatever start() and stop() calls are made on an enabled spinner, at
\* most one render thread runs at any time; while the spinner is started no
\* step makes a thread; and when stop() has returned the thread it joined
\* has ended, the spinner id is None and the frame index is 0.
C37_AtMostOneRenderThread ==
    [][(halo.pc # "none" /\ halo.enabled) =>
        /\ Cardinality({k \in 1..MaxThreads :
                            halo'.threads[k].status = "running"}) <= 1
        /\ halo.spinner_id # 0 =>
                \A k \in 1..MaxThreads :
                    halo.threads[k].status = "none" =>
                        halo'.threads[k].status = "none"
        /\ halo'.returned = "stop" =>
                /\ \A k \in 1..MaxThreads :
                        halo'.threads[k].status # "running"
                /\ halo'.spinner_thread # 0 =>
                        halo'.threads[halo'.spinner_thread].status = "dead"
                /\ halo'.spinner_id = 0
                /\ halo'.frame_index = 0]_vars

\* stop() has returned after a second spinner thread was started and
\* stopped, the first having been stopped before.
C37_Witness ==
    /\ halo.pc = "idle" /\ halo.enabled /\ halo.returned = "stop"
    /\ halo.threads[1].status = "dead" /\ halo.threads[2].status = "dead"

\* --------------------------------------------------------------------- C38

\* C38: when a render thread is about to index the spinner's frames in
\* frame(), the frame index is within the list, also while a caller is
\* assigning a spinner with another number of frames.
C38_FrameIndexInBounds ==
    halo.pc # "none" =>
        \A k \in 1..MaxThreads :
            (halo.threads[k].status = "running" /\ halo.threads[k].pc = "frame")
                => halo.frame_index < halo.spinner

\* --------------------------------------------------------------------- C39

\* C39: when text_frame() is about to index the text's frames, in a render
\* thread or in start(), the text index is within the list, after whatever
\* renders and assignments of a text or an animation came before.
C39_TextIndexInBounds ==
    halo.pc # "none" =>
        /\ \A k \in 1..MaxThreads :
            (halo.threads[k].status = "running"
                /\ halo.threads[k].pc = "text_index")
                => halo.text_index < halo.text.frames
        /\ (halo.pc = "start_render" /\ halo.text.frames # 1)
                => halo.text_index < halo.text.frames
====
